---- MODULE Spec2Model ----
(***************************************************************************)
(* ServerConnection (src/src/model/connection/server_connection.py): the   *)
(* connect / disconnect / cancel lifecycle on a cooperative, single-       *)
(* threaded event loop.  Every invocation of connect(), disconnect() or    *)
(* cancel() is one entry of `calls`; an accepted connect()/disconnect()    *)
(* owns the task it created and stays suspended at its `await` until that  *)
(* task is done or cancelled.  Sleeps are counted in whole seconds.        *)
(*                                                                         *)
(* Variable, StateVariable and AutomaticStateVariable (src/src/variable/): *)
(* one object `obj`, the record `last` of the latest call made on it and   *)
(* the timer callbacks `fired` that ran since that call.                   *)
(*                                                                         *)
(* Status observers of the connection: the set of registered callbacks and *)
(* the log `observed` of registrations and of the calls each callback got. *)
(***************************************************************************)
EXTENDS Integers, Sequences, FiniteSets, TLC

VARIABLES
    url,                \* self._url
    connection_status,  \* self._connection_status
    connect_task,       \* self._connect_task: NoTask or the index of the call owning the task
    disconnect_task,    \* self._disconnect_task: likewise
    calls,              \* the invocations of connect/disconnect/cancel, in call order
    notified            \* what a registered status observer was called with: <<value, old_value>>

vars == <<url, connection_status, connect_task, disconnect_task, calls, notified>>

VARIABLES
    url_calls,          \* the invocations of the url setter (recorded under UrlSpec)
    obj,                \* the variable object: its class and its attributes
    last,               \* the latest constructor/setter call on obj and how it ended
    fired,              \* the timer callbacks run by the loop since that call
    elapsed             \* seconds since that call

varvars == <<obj, last, fired, elapsed>>

VARIABLES
    on_connection_status_changed,   \* self._on_connection_status_changed: a set of callbacks
    observed            \* the registrations of status observers and the calls they got

obsvars == <<on_connection_status_changed, observed>>

VARIABLES
    status_calls        \* the assignments of connection_status made by the caller

allvars == <<url, connection_status, connect_task, disconnect_task, calls, notified,
             url_calls, obj, last, fired, elapsed, on_connection_status_changed, observed,
             status_calls>>

\* Bound on the number of connect/disconnect/cancel invocations explored.
MaxCalls == 4

\* Bounds of the behaviours in which the url setter calls are recorded (UrlSpec):
\* setter calls, and connect/disconnect/cancel invocations.
MaxSetURL == 2
MaxUrlCalls == 2

\* Bounds of the behaviours in which status observers are registered (ObsSpec):
\* connect/disconnect/cancel invocations, and registrations after construction.
MaxObsCalls == 1
MaxSubscribe == 2

\* Bound on the connect/disconnect/cancel invocations of a connection that
\* has a status observer from its construction on (ChainSpec).
MaxChainCalls == 3

\* The same bound for the behaviours checked for progress (FairSpec).
MaxLiveCalls == 3
MaxIdleCalls == 4

\* Python's None, for the url and for a call that returns nothing.
None == "None"
\* Python's None in a task handle (tasks are named by call index, from 1).
NoTask == 0

ConnectionStatus ==
    {"UNDEFINED", "DISCONNECTED", "CONNECTED", "DISCONNECTING", "CONNECTING", "CANCELLING"}

\* Durations of the simulated work, in seconds.
ConnectSleep == 5
GraceSleep == 2
TeardownSleep == 1

-----------------------------------------------------------------------------
(* URL validation *)

\* The raw values handed to the url setter; None stands for a non-string.
RawURLs == {"http://host:8080/path?x=1", "localhost:5000", "http://[", None}

\* Further raw values, handed to the url setter under UrlSpec.
UrlInputs == RawURLs \cup {"example.com", "//host/path", "//["}

\* What urlparse gives: the parts validate_url reads, or the exception raised.
ParseResult(scheme, netloc, path) ==
    [scheme |-> scheme, netloc |-> netloc, path |-> path, exc |-> None]

\* urllib.parse.urlparse on the raw strings above (scheme, netloc, path); it
\* raises ValueError ("Invalid IPv6 URL") when the netloc has a "[" without
\* its "]".
urlparse(raw) ==
    CASE raw = "http://host:8080/path?x=1" -> ParseResult("http", "host:8080", "/path")
      [] raw = "localhost:5000" -> ParseResult("localhost", "", "5000")
      [] raw = "//host/path" -> ParseResult("", "host", "/path")
      [] raw = "example.com" -> ParseResult("", "", "example.com")
      [] raw = "http://[" -> [ParseResult("", "", "") EXCEPT !.exc = "ValueError"]
      [] raw = "//[" -> [ParseResult("", "", "") EXCEPT !.exc = "ValueError"]

\* How validate_url ends: the value it returns, or the exception that leaves it.
Validated(value, exc) == [url |-> value, exc |-> exc]

\* validate_url: None for a non-string and for a parse result without netloc or
\* scheme; nothing catches the ValueError of urlparse.
validate_url(raw) ==
    IF raw = None THEN Validated(None, None)
    ELSE LET parse_result == urlparse(raw) IN
         IF parse_result.exc # None THEN Validated(None, parse_result.exc)
         ELSE IF parse_result.netloc = "" \/ parse_result.scheme = "" THEN Validated(None, None)
         ELSE Validated(parse_result.scheme \o "://" \o parse_result.netloc \o parse_result.path,
                        None)

-----------------------------------------------------------------------------
(* Status property *)

\* Mutant: the callback arguments swapped.
Notify_Swapped(log, old_value, value) == Append(log, <<old_value, value>>)

\* Mutant: the setter notifies only when the value changes.
Notify_OnChange(log, old_value, value) ==
    IF old_value = value THEN log ELSE Append(log, <<value, old_value>>)

\* connection_status.setter: every registered callback gets (self, value, old_value).
Notify(log, old_value, value) == Append(log, <<value, old_value>>)

\* Mutant: every status counts as connected.
connected_Always(status) == TRUE

\* The `connected` property.
connected(status) == status \in {"CONNECTED", "DISCONNECTING"}

\* What a caller can observe of the object at one instant.
Snapshot(status, ct, dt, u) == [status |-> status, ct |-> ct, dt |-> dt, url |-> u]

Snap == Snapshot(connection_status, connect_task, disconnect_task, url)

\* The `post` of a call that has not yet returned or raised.
NoSnap == Snapshot("pending", NoTask, NoTask, None)

\* Mutant: Task.cancel() has no effect.
CancelTask_Noop(cs, t) == cs

\* Task.cancel(): the cancellation of a task that is not done is requested and
\* the task stays not done until the loop runs it; a done task is left alone.
CancelTask(cs, t) ==
    IF cs[t].task = "pending" THEN [cs EXCEPT ![t].task = "cancelling"] ELSE cs

-----------------------------------------------------------------------------
Init ==
    /\ url = None
    /\ connection_status = "DISCONNECTED"
    /\ connect_task = NoTask
    /\ disconnect_task = NoTask
    /\ calls = <<>>
    /\ notified = <<>>

\* url.setter: `self._url = validate_url(value)`; when validate_url raises,
\* the exception leaves the setter before the assignment.
SetURL(raw) ==
    /\ url' = (IF validate_url(raw).exc = None THEN validate_url(raw).url ELSE url)
    /\ UNCHANGED <<connection_status, connect_task, disconnect_task, calls, notified>>

\* connection.connection_status = value, assigned by the caller (lines 59-65):
\* the setter stores any status and notifies, and touches nothing else.
SetStatus(value) ==
    /\ connection_status' = value
    /\ notified' = Notify(notified, connection_status, value)
    /\ UNCHANGED <<url, connect_task, disconnect_task, calls>>

-----------------------------------------------------------------------------
(* connect() *)

\* A call record.  pc: "await" (suspended at its await), "returned" or "raised".
\* task: the state of the task the call created ("none" when it created none):
\* "pending", "cancelling" (cancel() was called on it and the loop has not run
\* it since), "cancelled" or "done".
\* step/timer: where that task's coroutine stands and the seconds left of its sleep.
Call(op, pre, pc, result, post, task, step, timer) ==
    [op |-> op, pre |-> pre, pc |-> pc, result |-> result, post |-> post,
     task |-> task, step |-> step, timer |-> timer]

\* Line 80: the URL check.
UrlMissing(u) == u = None

\* Mutant: the status is not restored before the missing-URL error is raised.
UrlMissingStatus_NotRestored == "CONNECTING"

\* Mutant: the missing-URL path leaves the status UNDEFINED.
UrlMissingStatus_Undefined == "UNDEFINED"

\* Line 81: the status restored before the missing-URL error is raised.
UrlMissingStatus == "DISCONNECTED"

\* Mutant: connect() admits a second connect.
ConnectAlreadyStarted_Never(ct) == FALSE

\* Line 85: the admission guard of connect().
ConnectAlreadyStarted(ct) == ct # NoTask

\* Line 92: the value connect_coro returns.
connect_coro_result == TRUE

\* connect() from its call up to its first suspension (lines 76-95).
Connect ==
    LET id == Len(calls) + 1
        n1 == Notify(notified, connection_status, "CONNECTING")
    IN
    IF UrlMissing(url) THEN
         /\ connection_status' = UrlMissingStatus
         /\ notified' = Notify(n1, "CONNECTING", UrlMissingStatus)
         /\ calls' = Append(calls,
               Call("connect", Snap, "raised", "ConnectionError",
                    Snapshot(UrlMissingStatus, connect_task, disconnect_task, url),
                    "none", "none", 0))
         /\ UNCHANGED <<url, connect_task, disconnect_task>>
    ELSE IF ConnectAlreadyStarted(connect_task) THEN
         /\ connection_status' = "CONNECTING"
         /\ notified' = n1
         /\ calls' = Append(calls,
               Call("connect", Snap, "raised", "ConnectionError",
                    Snapshot("CONNECTING", connect_task, disconnect_task, url),
                    "none", "none", 0))
         /\ UNCHANGED <<url, connect_task, disconnect_task>>
    ELSE
         /\ connection_status' = "CONNECTING"
         /\ notified' = n1
         /\ connect_task' = id
         /\ calls' = Append(calls,
               Call("connect", Snap, "await", "pending", NoSnap,
                    "pending", "handshake", ConnectSleep))
         /\ UNCHANGED <<url, disconnect_task>>

\* connect_coro (lines 89-92): the sleep is over and the task returns.
ConnectTaskStep(i) ==
    /\ i \in 1..Len(calls)
    /\ calls[i].op = "connect"
    /\ calls[i].task = "pending"
    /\ calls[i].timer = 0
    /\ calls' = [calls EXCEPT ![i].task = "done", ![i].step = "returned"]
    /\ UNCHANGED <<url, connection_status, connect_task, disconnect_task, notified>>

\* Lines 98/108: self._connect_task.result() as evaluated inside the try block.
\* The handle is read again after the await, so it need not be the awaited task;
\* a task whose cancellation is requested and not yet delivered is not done.
ConnectTaskResult(cs, ct) ==
    IF ct = NoTask THEN "AttributeError"
    ELSE IF cs[ct].task \in {"pending", "cancelling"} THEN "InvalidStateError"
    ELSE IF cs[ct].task = "cancelled" THEN "CancelledError"
    ELSE IF connect_coro_result THEN "True" ELSE "False"

\* Mutant: awaiting a cancelled task returns like awaiting a finished one.
AwaitConnectTask_Swallowed(taskState) == "ok"

\* Line 95: what `await self._connect_task` does once the awaited task has ended.
\* The await stands before the try block.
AwaitConnectTask(taskState) == IF taskState = "cancelled" THEN "CancelledError" ELSE "ok"

\* connect() resumed from its await (lines 95-112).
ConnectResume(i) ==
    /\ i \in 1..Len(calls)
    /\ calls[i].op = "connect"
    /\ calls[i].pc = "await"
    /\ calls[i].task \in {"done", "cancelled"}
    /\ LET awaited == AwaitConnectTask(calls[i].task)
           r == ConnectTaskResult(calls, connect_task)
       IN
       IF awaited = "CancelledError" THEN
            /\ calls' = [calls EXCEPT ![i].pc = "raised", ![i].result = "CancelledError",
                                      ![i].post = Snap]
            /\ UNCHANGED <<url, connection_status, connect_task, disconnect_task, notified>>
       ELSE IF r \in {"AttributeError", "InvalidStateError"} THEN
            /\ calls' = [calls EXCEPT ![i].pc = "raised", ![i].result = r, ![i].post = Snap]
            /\ UNCHANGED <<url, connection_status, connect_task, disconnect_task, notified>>
       ELSE LET new == IF r = "True" THEN "CONNECTED" ELSE "DISCONNECTED" IN
            /\ connection_status' = new
            /\ notified' = Notify(notified, connection_status, new)
            /\ connect_task' = NoTask
            /\ calls' = [calls EXCEPT
                  ![i].pc = "returned",
                  ![i].result = IF r = "True" THEN "True" ELSE "False",
                  ![i].post = Snapshot(new, NoTask, disconnect_task, url)]
            /\ UNCHANGED <<url, disconnect_task>>

-----------------------------------------------------------------------------
(* disconnect() *)

\* Line 120: the admission guard of disconnect().
DisconnectAlreadyStarted(dt) == dt # NoTask

\* disconnect() from its call up to its first suspension (lines 114-132).
Disconnect ==
    LET id == Len(calls) + 1 IN
    IF ~connected(connection_status) THEN
         /\ calls' = Append(calls,
               Call("disconnect", Snap, "returned", None, Snap, "none", "none", 0))
         /\ UNCHANGED <<url, connection_status, connect_task, disconnect_task, notified>>
    ELSE IF DisconnectAlreadyStarted(disconnect_task) THEN
         /\ connection_status' = "DISCONNECTING"
         /\ notified' = Notify(notified, connection_status, "DISCONNECTING")
         /\ calls' = Append(calls,
               Call("disconnect", Snap, "raised", "ConnectionError",
                    Snapshot("DISCONNECTING", connect_task, disconnect_task, url),
                    "none", "none", 0))
         /\ UNCHANGED <<url, connect_task, disconnect_task>>
    ELSE
         /\ connection_status' = "DISCONNECTING"
         /\ notified' = Notify(notified, connection_status, "DISCONNECTING")
         /\ disconnect_task' = id
         /\ calls' = Append(calls,
               Call("disconnect", Snap, "await", "pending", NoSnap,
                    "pending", "created", 0))
         /\ UNCHANGED <<url, connect_task>>

\* disconnect_coro (lines 123-129), one step of the task at a time: its first step,
\* the end of the grace sleep, the end of the teardown sleep.
DisconnectTaskStep(i) ==
    /\ i \in 1..Len(calls)
    /\ calls[i].op = "disconnect"
    /\ calls[i].task = "pending"
    /\ calls[i].timer = 0
    /\ CASE calls[i].step = "created" ->
              IF connect_task # NoTask THEN
                   /\ calls' = [CancelTask(calls, connect_task) EXCEPT
                                   ![i].step = "grace", ![i].timer = GraceSleep]
                   /\ UNCHANGED connect_task
              ELSE /\ calls' = [calls EXCEPT ![i].step = "teardown", ![i].timer = TeardownSleep]
                   /\ UNCHANGED connect_task
         [] calls[i].step = "grace" ->
              /\ connect_task' = NoTask
              /\ calls' = [calls EXCEPT ![i].step = "teardown", ![i].timer = TeardownSleep]
         [] calls[i].step = "teardown" ->
              /\ calls' = [calls EXCEPT ![i].task = "done", ![i].step = "returned"]
              /\ UNCHANGED connect_task
    /\ UNCHANGED <<url, connection_status, disconnect_task, notified>>

\* Line 132: what `await self._disconnect_task` does once the awaited task has ended.
AwaitDisconnectTask(taskState) == IF taskState = "cancelled" THEN "CancelledError" ELSE "ok"

\* disconnect() resumed from its await (lines 132-135).
DisconnectResume(i) ==
    /\ i \in 1..Len(calls)
    /\ calls[i].op = "disconnect"
    /\ calls[i].pc = "await"
    /\ calls[i].task \in {"done", "cancelled"}
    /\ IF AwaitDisconnectTask(calls[i].task) = "CancelledError" THEN
            /\ calls' = [calls EXCEPT ![i].pc = "raised", ![i].result = "CancelledError",
                                      ![i].post = Snap]
            /\ UNCHANGED <<url, connection_status, connect_task, disconnect_task, notified>>
       ELSE
            /\ connection_status' = "DISCONNECTED"
            /\ notified' = Notify(notified, connection_status, "DISCONNECTED")
            /\ disconnect_task' = NoTask
            /\ calls' = [calls EXCEPT
                  ![i].pc = "returned", ![i].result = None,
                  ![i].post = Snapshot("DISCONNECTED", connect_task, NoTask, url)]
            /\ UNCHANGED <<url, connect_task>>

-----------------------------------------------------------------------------
(* cancel() *)

\* Mutant: cancel() starts from DISCONNECTED instead of CANCELLING.
CancelFirstStatus_Disconnected == "DISCONNECTED"

\* Line 139: the status cancel() assigns first.
CancelFirstStatus == "CANCELLING"

\* Mutant: a cancelled connect leaves the status as line 139 set it.
CancelConnectStatus_Cancelling == "CANCELLING"

\* Line 143: the status after an in-flight connect is cancelled.
CancelConnectStatus == "DISCONNECTED"

\* Mutant: a cancelled disconnect treated like a finished one.
CancelDisconnectStatus_Disconnected == "DISCONNECTED"

\* Line 148: the status after an in-flight disconnect is cancelled.
CancelDisconnectStatus == "CONNECTED"

\* cancel() (lines 137-148): synchronous, the two handles are tested one after the other.
Cancel ==
    LET s0 == CancelFirstStatus
        n0 == Notify(notified, connection_status, s0)
        hasC == connect_task # NoTask
        c1 == IF hasC THEN CancelTask(calls, connect_task) ELSE calls
        s1 == IF hasC THEN CancelConnectStatus ELSE s0
        n1 == IF hasC THEN Notify(n0, s0, s1) ELSE n0
        hasD == disconnect_task # NoTask
        c2 == IF hasD THEN CancelTask(c1, disconnect_task) ELSE c1
        s2 == IF hasD THEN CancelDisconnectStatus ELSE s1
        n2 == IF hasD THEN Notify(n1, s1, s2) ELSE n1
    IN
    /\ connection_status' = s2
    /\ notified' = n2
    /\ connect_task' = NoTask
    /\ disconnect_task' = NoTask
    /\ calls' = Append(c2,
          Call("cancel", Snap, "returned", None, Snapshot(s2, NoTask, NoTask, url),
               "none", "none", 0))
    /\ UNCHANGED url

-----------------------------------------------------------------------------
(* The event loop *)

\* The loop runs a task on which cancel() was called: CancelledError is thrown
\* into connect_coro (lines 89-92) or disconnect_coro (lines 123-129), neither
\* of which catches it, and the task ends cancelled.
TaskCancelled(i) ==
    /\ i \in 1..Len(calls)
    /\ calls[i].task = "cancelling"
    /\ calls' = [calls EXCEPT ![i].task = "cancelled"]
    /\ UNCHANGED <<url, connection_status, connect_task, disconnect_task, notified>>

\* Something is ready to run now: a task step or the wake-up of a suspended call.
Ready(c) ==
    \/ c.task = "pending" /\ c.timer = 0
    \/ c.task = "cancelling"
    \/ c.pc = "await" /\ c.task \in {"done", "cancelled"}

Sleeping(c) == c.task = "pending" /\ c.timer > 0

\* One second passes: the loop runs what is ready before it waits on its timers.
Tick ==
    /\ \A i \in 1..Len(calls) : ~Ready(calls[i])
    /\ \E i \in 1..Len(calls) : Sleeping(calls[i])
    /\ calls' = [i \in 1..Len(calls) |->
                    IF Sleeping(calls[i]) THEN [calls[i] EXCEPT !.timer = @ - 1]
                    ELSE calls[i]]
    /\ UNCHANGED <<url, connection_status, connect_task, disconnect_task, notified>>

-----------------------------------------------------------------------------
(* Variable, StateVariable, AutomaticStateVariable: values and attributes *)

\* Largest int handed to a variable, and longest decay delay in seconds.
MaxInt == 2
MaxDuration == 2

\* Python values as (type name, number): None, a str, the ints 0..MaxInt.
PyNone == [t |-> "NoneType", n |-> 0]
PyStr == [t |-> "str", n |-> 0]
PyInt(k) == [t |-> "int", n |-> k]

Values == {PyNone, PyStr} \cup {PyInt(k) : k \in 0..MaxInt}

\* The values handed to an AutomaticStateVariable.
TimedValues == {PyInt(0), PyInt(1)}

\* type(value)
type(v) == v.t

\* The validators handed to the constructor: None, or
\* lambda _, v: isinstance(v, int) and v > 0.
Validators == {None, "positive"}

validator(self, v) == v.t = "int" /\ v.n > 0

\* `self.validator and not self.validator(self, value)`
Rejected(o, v) == o.validator # None /\ ~validator(o, v)

\* The callbacks handed in as value observers; the one named "raiser" raises.
Observers == {"a", "b", "raiser"}

\* The callbacks handed in as on_state_change (None: no callback); the one
\* named "raiser" raises when the new state is RED or BLUE.
StateCallbacks == {None, "on_state_change", "raiser"}

Raises(callback) == callback = "raiser"

StateRaises(callback, new_state) == callback = "raiser" /\ new_state \in {"RED", "BLUE"}

\* enum State
State == {"UNINITIALIZED", "RED", "YELLOW", "GREEN", "BLUE"}

\* A delay of None (delays are seconds, 0..MaxDuration).
NoDuration == -1

Durations == {NoDuration} \cup 0..MaxDuration

\* Truth value of a delay: None and 0.0 are false.
Truthy(d) == d # NoDuration /\ d # 0

\* A timer handle attribute: None, or the TimerHandle of loop.call_later(d, ...).
NoHandle == [st |-> "none", left |-> 0]

TimerHandle(d) == [st |-> "pending", left |-> d]

\* `if handle and not handle.cancelled(): handle.cancel()`
CancelHandle(h) ==
    IF h.st # "none" /\ h.st # "cancelled" THEN [st |-> "cancelled", left |-> 0] ELSE h

\* The object: its class and attributes.  A Variable keeps the state attributes
\* at their defaults; only an AutomaticStateVariable has delays and handles.
\* `unreferenced` holds the TimerHandles the loop still has scheduled although
\* no attribute refers to them any more, as (timer, seconds left).
Object(cls, value, validatorName, observers, state, on_state_change, green_to_yellow, yellow_to_red) ==
    [cls |-> cls, value |-> value, type |-> type(value), validator |-> validatorName,
     on_value_changed |-> observers, state |-> state,
     on_state_change |-> on_state_change,
     green_to_yellow |-> green_to_yellow, yellow_to_red |-> yellow_to_red,
     green_to_yellow_handle |-> NoHandle, yellow_to_red_handle |-> NoHandle,
     unreferenced |-> {}, formatter |-> None]

\* No object: the constructor raised.
NoObject == [Object("none", PyNone, None, {}, "UNINITIALIZED", None,
                    NoDuration, NoDuration) EXCEPT !.type = None]

\* Mutant: the value observers get (self, old_value, value).
ValueCall_Swapped(callback, value, old_value) ==
    [callback |-> callback, kind |-> "value", value |-> old_value, old_value |-> value,
     state |-> None, old_state |-> None]

\* One callback invocation: which callback, and the arguments after `self`.
ValueCall(callback, value, old_value) ==
    [callback |-> callback, kind |-> "value", value |-> value, old_value |-> old_value,
     state |-> None, old_state |-> None]

StateCall(callback, state, old_state) ==
    [callback |-> callback, kind |-> "state", value |-> PyNone, old_value |-> PyNone,
     state |-> state, old_state |-> old_state]

\* How a method ends: the object it leaves, the callbacks it invoked in order,
\* and the exception it raised (None when it returned).
Result(o, invoked, exc) == [obj |-> o, invoked |-> invoked, exc |-> exc]

-----------------------------------------------------------------------------
(* Formatting *)

\* The formatters assigned to the `formatter` attribute: None,
\* lambda _, v: f"{v:d}" and lambda _, v: "v=" + v.
Formatters == {None, "decimal", "prefix"}

\* What a formatter call gives: the string it returns, or the exception it raises.
Formatted(ret, exc) == [ret |-> ret, exc |-> exc]

\* str(v)
str(v) ==
    CASE v.t = "NoneType" -> "None"
      [] v.t = "str" -> "s"
      [] v.t = "int" -> ToString(v.n)

\* self.formatter(self, v)
formatter(self, v) ==
    CASE self.formatter = "decimal" ->
            (CASE v.t = "int" -> Formatted(ToString(v.n), None)
               [] v.t = "str" -> Formatted(None, "ValueError")
               [] v.t = "NoneType" -> Formatted(None, "TypeError"))
      [] self.formatter = "prefix" ->
            (CASE v.t = "str" -> Formatted("v=" \o str(v), None)
               [] OTHER -> Formatted(None, "TypeError"))

\* Variable.__repr__
Variable_repr(o) ==
    IF o.formatter # None
    THEN LET f == formatter(o, o.value) IN
         IF f.exc = "TypeError" /\ o.value = PyNone THEN Formatted("None", None)
         ELSE f
    ELSE Formatted(str(o.value), None)

-----------------------------------------------------------------------------
(* Variable *)

\* The orders in which `for callback in self._on_value_changed` can visit a set.
Orders(S) ==
    {order \in [1..Cardinality(S) -> S] :
        \A i, j \in 1..Cardinality(S) : order[i] = order[j] => i = j}

\* Lines 69-70: the observers are called in turn; the first that raises ends the loop.
NotifyObservers(o, old_value, order) ==
    LET raising == {i \in 1..Len(order) : Raises(order[i])}
        n == IF raising = {} THEN Len(order)
             ELSE CHOOSE i \in raising : \A j \in raising : i <= j
    IN  [invoked |-> [i \in 1..n |-> ValueCall(order[i], o.value, old_value)],
         exc |-> IF raising = {} THEN None ELSE "CallbackError"]

\* Mutant: the type follows the value held, so that None un-fixes it.
TypeMismatch_CurrentValue(o, new_value) ==
    new_value # PyNone /\ type(new_value) # type(o.value)

\* Lines 58-59: None is always admitted, anything else must have the fixed type.
TypeMismatch(o, new_value) == new_value # PyNone /\ type(new_value) # o.type

\* Mutant: the validator is not consulted by the setter.
Variable_set_value_Unvalidated(o, new_value, order) ==
    LET stored == [o EXCEPT !.value = new_value]
        n == NotifyObservers(stored, o.value, order)
    IN  Result(stored, n.invoked, n.exc)

\* Variable._set_value
Variable_set_value(o, new_value, order) ==
    IF o.type = None THEN Result(o, <<>>, "RuntimeWarning")
    ELSE IF TypeMismatch(o, new_value) THEN Result(o, <<>>, "AssertionError")
    ELSE IF Rejected(o, new_value) THEN Result(o, <<>>, "ValidationError")
    ELSE LET stored == [o EXCEPT !.value = new_value]
             logged == Variable_repr(stored)
             n == NotifyObservers(stored, o.value, order)
         IN  IF logged.exc # None THEN Result(stored, <<>>, logged.exc)
             ELSE Result(stored, n.invoked, n.exc)

\* Variable.__init__: on_value_changed is one callback or None.
\* Mutant: the constructor does not consult the validator.
Variable_init_Unvalidated(cls, value, on_value_changed, validatorName) ==
    Result(Object(cls, value, validatorName,
                  IF on_value_changed = None THEN {} ELSE {on_value_changed},
                  "UNINITIALIZED", None, NoDuration, NoDuration),
           <<>>, None)

Variable_init(cls, value, on_value_changed, validatorName) ==
    LET o == Object(cls, value, validatorName,
                    IF on_value_changed = None THEN {} ELSE {on_value_changed},
                    "UNINITIALIZED", None, NoDuration, NoDuration)
    IN  IF Rejected(o, value) THEN Result(NoObject, <<>>, "ValidationError")
        ELSE Result(o, <<>>, None)

-----------------------------------------------------------------------------
(* StateVariable *)

\* A setState argument that is not a State.
NotAState == "NotAState"

\* StateVariable._set_state
StateVariable_set_state(o, new_state) ==
    IF new_state \notin State THEN Result(o, <<>>, "AssertionError")
    ELSE LET stored == [o EXCEPT !.state = new_state]
             logged == Variable_repr(stored)
         IN
         IF logged.exc # None THEN Result(stored, <<>>, logged.exc)
         ELSE IF o.on_state_change = None THEN Result(stored, <<>>, None)
         ELSE Result(stored, <<StateCall(o.on_state_change, new_state, o.state)>>,
                     IF StateRaises(o.on_state_change, new_state) THEN "CallbackError"
                     ELSE None)

\* StateVariable.__init__: state is a State or None.
StateVariable_init(cls, value, state, on_state_change, on_value_changed, validatorName) ==
    LET r == Variable_init(cls, value, on_value_changed, validatorName) IN
    IF r.exc # None THEN r
    ELSE Result([r.obj EXCEPT !.state = IF state = None THEN "UNINITIALIZED" ELSE state,
                              !.on_state_change = on_state_change],
                <<>>, None)

-----------------------------------------------------------------------------
(* AutomaticStateVariable *)

\* A handle attribute is overwritten: a handle that was still pending stays
\* scheduled in the loop.
Overwritten(timer, h) ==
    IF h.st = "pending" THEN {[timer |-> timer, left |-> h.left]} ELSE {}

\* Lines 72-77: GREEN arms the green-to-yellow timer when the delay is true.
ArmGreenToYellow(o, new_state) ==
    IF new_state = "GREEN" /\ Truthy(o.green_to_yellow)
    THEN [o EXCEPT !.green_to_yellow_handle = TimerHandle(o.green_to_yellow),
                   !.unreferenced =
                       @ \cup Overwritten("green_to_yellow", o.green_to_yellow_handle)]
    ELSE o

\* Mutant: the yellow-to-red timer is armed whatever the new state.
ArmYellowToRed_AnyState(o, new_state) ==
    IF Truthy(o.yellow_to_red)
    THEN [o EXCEPT !.yellow_to_red_handle = TimerHandle(o.yellow_to_red),
                   !.unreferenced =
                       @ \cup Overwritten("yellow_to_red", o.yellow_to_red_handle)]
    ELSE o

\* Lines 79-84: YELLOW arms the yellow-to-red timer when the delay is true.
ArmYellowToRed(o, new_state) ==
    IF new_state = "YELLOW" /\ Truthy(o.yellow_to_red)
    THEN [o EXCEPT !.yellow_to_red_handle = TimerHandle(o.yellow_to_red),
                   !.unreferenced =
                       @ \cup Overwritten("yellow_to_red", o.yellow_to_red_handle)]
    ELSE o

\* green_to_yellow.setter (lines 40-46): None is stored as None, any other
\* delay as a float, and then the debug line formats self.  No timer is
\* cancelled or armed.
green_to_yellow_setter(o, new_value) ==
    LET stored == [o EXCEPT !.green_to_yellow = new_value]
        logged == Variable_repr(stored)
    IN  IF new_value # NoDuration /\ logged.exc # None
        THEN Result(stored, <<>>, logged.exc)
        ELSE Result(stored, <<>>, None)

\* yellow_to_red.setter (lines 52-58)
yellow_to_red_setter(o, new_value) ==
    LET stored == [o EXCEPT !.yellow_to_red = new_value]
        logged == Variable_repr(stored)
    IN  IF new_value # NoDuration /\ logged.exc # None
        THEN Result(stored, <<>>, logged.exc)
        ELSE Result(stored, <<>>, None)

\* Lines 64-70: both handles are cancelled.
CancelHandles(o) ==
    [o EXCEPT !.green_to_yellow_handle = CancelHandle(@),
              !.yellow_to_red_handle = CancelHandle(@)]

\* AutomaticStateVariable._set_state: the base transition and its callback come
\* first; an exception there leaves the handles as they were.
AutomaticStateVariable_set_state(o, new_state) ==
    LET r == StateVariable_set_state(o, new_state) IN
    IF r.exc # None THEN r
    ELSE Result(ArmYellowToRed(ArmGreenToYellow(CancelHandles(r.obj), new_state),
                               new_state),
                r.invoked, None)

\* Mutant: the state is set to GREEN before the base setter runs.
AutomaticStateVariable_set_value_GreenFirst(o, new_value, order) ==
    LET q == AutomaticStateVariable_set_state(o, "GREEN")
        r == Variable_set_value(q.obj, new_value, order)
    IN  Result(r.obj, q.invoked \o r.invoked, r.exc)

\* Mutant: the value setter without `self.state = State.GREEN`.
AutomaticStateVariable_set_value_StateKept(o, new_value, order) ==
    Variable_set_value(o, new_value, order)

\* Mutant: the state is set to GREEN even when the base setter raised.
AutomaticStateVariable_set_value_GreenAlways(o, new_value, order) ==
    LET r == Variable_set_value(o, new_value, order)
        q == AutomaticStateVariable_set_state(r.obj, "GREEN")
    IN  Result(q.obj, r.invoked \o q.invoked, IF r.exc # None THEN r.exc ELSE q.exc)

\* AutomaticStateVariable._set_value
AutomaticStateVariable_set_value(o, new_value, order) ==
    LET r == Variable_set_value(o, new_value, order) IN
    IF r.exc # None THEN r
    ELSE LET q == AutomaticStateVariable_set_state(r.obj, "GREEN") IN
         Result(q.obj, r.invoked \o q.invoked, q.exc)

\* Mutant: the constructor arms the timer of its initial state.
AutomaticStateVariable_init_Armed(cls, value, green_to_yellow, yellow_to_red, state, on_state_change, on_value_changed, validatorName) ==
    LET r == StateVariable_init(cls, value, state, on_state_change, on_value_changed,
                                validatorName) IN
    IF r.exc # None THEN r
    ELSE LET o == [r.obj EXCEPT !.green_to_yellow = green_to_yellow,
                                !.yellow_to_red = yellow_to_red]
         IN  Result(ArmYellowToRed(ArmGreenToYellow(o, o.state), o.state), <<>>, None)

\* AutomaticStateVariable.__init__
AutomaticStateVariable_init(cls, value, green_to_yellow, yellow_to_red, state, on_state_change, on_value_changed, validatorName) ==
    LET r == StateVariable_init(cls, value, state, on_state_change, on_value_changed,
                                validatorName) IN
    IF r.exc # None THEN r
    ELSE Result([r.obj EXCEPT !.green_to_yellow = green_to_yellow,
                              !.yellow_to_red = yellow_to_red],
                <<>>, None)

\* Mutant: every class sets its value as the timed class does.
set_value_Timed(o, new_value, order) ==
    AutomaticStateVariable_set_value(o, new_value, order)

\* The `value` and `state` properties of the object's class.
set_value(o, new_value, order) ==
    IF o.cls = "AutomaticStateVariable"
    THEN AutomaticStateVariable_set_value(o, new_value, order)
    ELSE Variable_set_value(o, new_value, order)

set_state(o, new_state) ==
    IF o.cls = "AutomaticStateVariable"
    THEN AutomaticStateVariable_set_state(o, new_state)
    ELSE StateVariable_set_state(o, new_state)

-----------------------------------------------------------------------------
(* Calls on the object, and the loop's timers *)

\* The record of a call: its arguments, the object before it, and how it ended.
Op(op, value, state, pre, r) ==
    [op |-> op, value |-> value, state |-> state, pre |-> pre,
     post |-> r.obj, invoked |-> r.invoked, exc |-> r.exc, ret |-> None]

\* The connection is left alone.
ConnectionIdle == UNCHANGED <<vars, url_calls, status_calls, obsvars>>

\* The constructor call: what it leaves is the initial state.
\* `pre` is self as the validator gets it on line 39: the validator is assigned
\* (line 37), no value is.
Constructed(value, state, validatorName, r) ==
    /\ obj = r.obj
    /\ last = Op("construct", value, state,
                 [NoObject EXCEPT !.validator = validatorName], r)
    /\ fired = <<>>
    /\ elapsed = 0

\* variable.value = new_value
SetValue(new_value) ==
    /\ obj.cls # "none"
    /\ \E order \in Orders(obj.on_value_changed) :
          LET r == set_value(obj, new_value, order) IN
          /\ obj' = r.obj
          /\ last' = Op("set", new_value, None, obj, r)
    /\ fired' = <<>>
    /\ elapsed' = 0
    /\ ConnectionIdle

\* variable.state = new_state
SetState(new_state) ==
    /\ obj.cls \in {"StateVariable", "AutomaticStateVariable"}
    /\ LET r == set_state(obj, new_state) IN
       /\ obj' = r.obj
       /\ last' = Op("setState", PyNone, new_state, obj, r)
    /\ fired' = <<>>
    /\ elapsed' = 0
    /\ ConnectionIdle

\* variable.on_value_changed = callback
Subscribe(callback) ==
    /\ obj.cls # "none"
    /\ LET o == [obj EXCEPT !.on_value_changed = @ \cup {callback}] IN
       /\ obj' = o
       /\ last' = Op("subscribe", PyNone, None, obj, Result(o, <<>>, None))
    /\ fired' = <<>>
    /\ elapsed' = 0
    /\ ConnectionIdle

\* variable.green_to_yellow = new_value
SetGreenToYellow(new_value) ==
    /\ obj.cls = "AutomaticStateVariable"
    /\ LET r == green_to_yellow_setter(obj, new_value) IN
       /\ obj' = r.obj
       /\ last' = Op("setGreenToYellow", PyNone, None, obj, r)
    /\ fired' = <<>>
    /\ elapsed' = 0
    /\ ConnectionIdle

\* variable.yellow_to_red = new_value
SetYellowToRed(new_value) ==
    /\ obj.cls = "AutomaticStateVariable"
    /\ LET r == yellow_to_red_setter(obj, new_value) IN
       /\ obj' = r.obj
       /\ last' = Op("setYellowToRed", PyNone, None, obj, r)
    /\ fired' = <<>>
    /\ elapsed' = 0
    /\ ConnectionIdle

\* variable.formatter = f
SetFormatter(f) ==
    /\ obj.cls # "none"
    /\ LET o == [obj EXCEPT !.formatter = f] IN
       /\ obj' = o
       /\ last' = Op("formatter", PyNone, None, obj, Result(o, <<>>, None))
    /\ fired' = <<>>
    /\ elapsed' = 0
    /\ ConnectionIdle

\* repr(variable)
Repr ==
    /\ obj.cls # "none"
    /\ LET f == Variable_repr(obj) IN
       last' = [Op("repr", PyNone, None, obj, Result(obj, <<>>, f.exc)) EXCEPT !.ret = f.ret]
    /\ UNCHANGED obj
    /\ fired' = <<>>
    /\ elapsed' = 0
    /\ ConnectionIdle

\* The timers the loop has scheduled: those the two attributes refer to, while
\* pending, and the unreferenced ones.
Scheduled(o) ==
    {[timer |-> "green_to_yellow", left |-> o.green_to_yellow_handle.left,
      referenced |-> TRUE] : x \in {h \in {o.green_to_yellow_handle} : h.st = "pending"}}
    \cup
    {[timer |-> "yellow_to_red", left |-> o.yellow_to_red_handle.left,
      referenced |-> TRUE] : x \in {h \in {o.yellow_to_red_handle} : h.st = "pending"}}
    \cup
    {[timer |-> t.timer, left |-> t.left, referenced |-> FALSE] : t \in o.unreferenced}

Due(t) == t.left = 0

\* The loop takes a due timer off its schedule to run it.
Run(o, t) ==
    IF ~t.referenced
    THEN [o EXCEPT !.unreferenced = @ \ {[timer |-> t.timer, left |-> t.left]}]
    ELSE IF t.timer = "green_to_yellow"
    THEN [o EXCEPT !.green_to_yellow_handle.st = "fired"]
    ELSE [o EXCEPT !.yellow_to_red_handle.st = "fired"]

\* A timer callback run by the loop, `lambda self: self._set_state(new_state)`;
\* an exception ends in the loop's exception handler.
Fire(t, new_state) ==
    LET r == AutomaticStateVariable_set_state(Run(obj, t), new_state) IN
    /\ obj' = r.obj
    /\ fired' = Append(fired, [timer |-> t.timer, referenced |-> t.referenced,
                               at |-> elapsed, pre |-> obj, post |-> r.obj,
                               invoked |-> r.invoked, exc |-> r.exc])
    /\ UNCHANGED <<last, elapsed>>
    /\ ConnectionIdle

FireGreenToYellow ==
    \E t \in Scheduled(obj) : t.timer = "green_to_yellow" /\ Due(t) /\ Fire(t, "YELLOW")

FireYellowToRed ==
    \E t \in Scheduled(obj) : t.timer = "yellow_to_red" /\ Due(t) /\ Fire(t, "RED")

Later(h) == IF h.st = "pending" THEN [h EXCEPT !.left = @ - 1] ELSE h

\* One second passes: the loop runs the due timers before it waits.
Elapse ==
    /\ Scheduled(obj) # {}
    /\ \A t \in Scheduled(obj) : ~Due(t)
    /\ obj' = [obj EXCEPT
                 !.green_to_yellow_handle = Later(@),
                 !.yellow_to_red_handle = Later(@),
                 !.unreferenced = {[t EXCEPT !.left = @ - 1] : t \in @}]
    /\ elapsed' = elapsed + 1
    /\ UNCHANGED <<last, fired>>
    /\ ConnectionIdle

\* The timers of the event loop.
Timers == FireGreenToYellow \/ FireYellowToRed \/ Elapse

\* No variable object is under study: nothing was constructed.
NoVariable ==
    /\ obj = NoObject
    /\ last = Op("none", PyNone, None, NoObject, Result(NoObject, <<>>, None))
    /\ fired = <<>>
    /\ elapsed = 0

-----------------------------------------------------------------------------
(* Status observers of the connection *)

\* The callbacks handed in as status observers.
StatusObservers == {"x", "y"}

\* Mutant: the assignment replaces the callbacks registered before.
on_connection_status_changed_setter_Replace(callbacks, value) == {value}

\* Lines 50-51: self._on_connection_status_changed.add(value)
on_connection_status_changed_setter(callbacks, value) == callbacks \cup {value}

\* A registration: by the constructor or by the property, after `at` notifications.
Registration(kind, callback, pre, post, at) ==
    [kind |-> kind, callback |-> callback, pre |-> pre, post |-> post, at |-> at,
     value |-> None, old_value |-> None]

\* One call of a status observer, for the `at`-th notification.
StatusCall(callback, at, pair) ==
    [kind |-> "call", callback |-> callback, pre |-> {}, post |-> {}, at |-> at,
     value |-> pair[1], old_value |-> pair[2]]

\* Lines 64-65, for the notifications from index `from` + 1 on: at each, every
\* callback of the set is called, in the set's iteration order.
StatusCalls(order, from, log) ==
    LET c == Len(order) IN
    [j \in 1..((Len(log) - from) * c) |->
        LET k == from + ((j - 1) \div c) + 1 IN
        StatusCall(order[((j - 1) % c) + 1], k, log[k])]

\* The status setter calls run by a step of the connection.
CallStatusObservers ==
    /\ \E order \in Orders(on_connection_status_changed) :
          observed' = observed \o StatusCalls(order, Len(notified), notified')
    /\ UNCHANGED on_connection_status_changed

\* connection.on_connection_status_changed = callback
SubscribeStatus(callback) ==
    /\ Len(SelectSeq(observed, LAMBDA e : e.kind = "subscribe")) < MaxSubscribe
    /\ on_connection_status_changed' =
          on_connection_status_changed_setter(on_connection_status_changed, callback)
    /\ observed' = Append(observed,
                          Registration("subscribe", callback, on_connection_status_changed,
                                       on_connection_status_changed', Len(notified)))
    /\ UNCHANGED <<vars, url_calls, status_calls, varvars>>

\* Lines 32-34 of the constructor.
StatusObserversInit(callback) ==
    /\ on_connection_status_changed = (IF callback = None THEN {} ELSE {callback})
    /\ observed = IF callback = None THEN <<>>
                  ELSE <<Registration("construct", callback, {}, {callback}, 0)>>

-----------------------------------------------------------------------------
(* The connection under every call *)

\* The steps the event loop takes on its own: task steps, wake-ups, timers.
Loop ==
    \/ \E i \in 1..Len(calls) : ConnectTaskStep(i) /\ CallStatusObservers /\ UNCHANGED <<url_calls, status_calls, varvars>>
    \/ \E i \in 1..Len(calls) : ConnectResume(i) /\ CallStatusObservers /\ UNCHANGED <<url_calls, status_calls, varvars>>
    \/ \E i \in 1..Len(calls) : DisconnectTaskStep(i) /\ CallStatusObservers /\ UNCHANGED <<url_calls, status_calls, varvars>>
    \/ \E i \in 1..Len(calls) : DisconnectResume(i) /\ CallStatusObservers /\ UNCHANGED <<url_calls, status_calls, varvars>>
    \/ \E i \in 1..Len(calls) : TaskCancelled(i) /\ CallStatusObservers /\ UNCHANGED <<url_calls, status_calls, varvars>>
    \/ Tick /\ CallStatusObservers /\ UNCHANGED <<url_calls, status_calls, varvars>>

\* The record of an assignment of connection_status by the caller: the value,
\* the status before, and how many connect/disconnect/cancel invocations came
\* before it.
StatusSet(value, pre, at) == [value |-> value, pre |-> pre, at |-> at]

SetStatusCall(value) ==
    /\ SetStatus(value)
    /\ status_calls' = Append(status_calls, StatusSet(value, connection_status, Len(calls)))

\* The invocations made so far: connect/disconnect/cancel calls and assignments
\* of connection_status.
Invocations == Len(calls) + Len(status_calls)

\* The caller: any operation at any moment, at most `max` connect/disconnect/cancel
\* invocations and status assignments in all.
Caller(max) ==
    \/ \E raw \in RawURLs : SetURL(raw) /\ CallStatusObservers /\ UNCHANGED <<url_calls, status_calls, varvars>>
    \/ Invocations < max /\ Connect /\ CallStatusObservers /\ UNCHANGED <<url_calls, status_calls, varvars>>
    \/ Invocations < max /\ Disconnect /\ CallStatusObservers /\ UNCHANGED <<url_calls, status_calls, varvars>>
    \/ Invocations < max /\ Cancel /\ CallStatusObservers /\ UNCHANGED <<url_calls, status_calls, varvars>>
    \/ \E value \in ConnectionStatus : Invocations < max /\ SetStatusCall(value) /\ CallStatusObservers /\ UNCHANGED <<url_calls, varvars>>

\* The connection alone: no url setter call is recorded, no variable is constructed.
ConnectionInit ==
    /\ Init
    /\ url_calls = <<>>
    /\ status_calls = <<>>
    /\ NoVariable
    /\ StatusObserversInit(None)

Next == Caller(MaxCalls) \/ Loop

Spec == ConnectionInit /\ [][Next]_allvars

LiveNext == Caller(MaxLiveCalls) \/ Loop

IdleNext == Caller(MaxIdleCalls) \/ Loop

\* The event loop runs every ready callback and fires every due timer; nothing is
\* assumed about when, or whether, the caller invokes an operation.
FairSpec == ConnectionInit /\ [][LiveNext]_allvars /\ WF_allvars(Loop)

\* The same loop under a caller that may make one call more.
IdleSpec == ConnectionInit /\ [][IdleNext]_allvars /\ WF_allvars(Loop)

-----------------------------------------------------------------------------
(* The connection with its url setter calls recorded *)

\* The record of a url setter call: the raw argument, the url before and after,
\* the exception it raised (None when it returned), and how many
\* connect/disconnect/cancel invocations came before it.
UrlCall(raw, pre, post, exc, at) ==
    [raw |-> raw, pre |-> pre, post |-> post, exc |-> exc, at |-> at]

SetURLCall(raw) ==
    /\ SetURL(raw)
    /\ url_calls' = Append(url_calls, UrlCall(raw, url, url', validate_url(raw).exc, Len(calls)))
    /\ UNCHANGED <<status_calls, varvars, obsvars>>

UrlNext ==
    \/ \E raw \in UrlInputs : Len(url_calls) < MaxSetURL /\ SetURLCall(raw)
    \/ Invocations < MaxUrlCalls /\ Connect /\ CallStatusObservers /\ UNCHANGED <<url_calls, status_calls, varvars>>
    \/ Invocations < MaxUrlCalls /\ Disconnect /\ CallStatusObservers /\ UNCHANGED <<url_calls, status_calls, varvars>>
    \/ Invocations < MaxUrlCalls /\ Cancel /\ CallStatusObservers /\ UNCHANGED <<url_calls, status_calls, varvars>>
    \/ \E value \in ConnectionStatus : Invocations < MaxUrlCalls /\ SetStatusCall(value) /\ CallStatusObservers /\ UNCHANGED <<url_calls, varvars>>
    \/ Loop

UrlSpec == ConnectionInit /\ [][UrlNext]_allvars

-----------------------------------------------------------------------------
(* Variable and StateVariable under every call *)

VarInit ==
    /\ Init
    /\ url_calls = <<>>
    /\ status_calls = <<>>
    /\ StatusObserversInit(None)
    /\ \E value \in Values, validatorName \in Validators,
          on_value_changed \in {None} \cup Observers :
          \/ Constructed(value, None, validatorName,
                         Variable_init("Variable", value, on_value_changed,
                                       validatorName))
          \/ \E state \in {None} \cup State, on_state_change \in StateCallbacks :
                Constructed(value, state, validatorName,
                            StateVariable_init("StateVariable", value, state,
                                               on_state_change, on_value_changed,
                                               validatorName))

VarNext ==
    \/ \E new_value \in Values : SetValue(new_value)
    \/ \E new_state \in State \cup {NotAState} : SetState(new_state)
    \/ \E callback \in Observers : Subscribe(callback)

VarSpec == VarInit /\ [][VarNext]_allvars

-----------------------------------------------------------------------------
(* AutomaticStateVariable under every call, with the loop's timers *)

TimedInit ==
    /\ Init
    /\ url_calls = <<>>
    /\ status_calls = <<>>
    /\ StatusObserversInit(None)
    /\ \E value \in TimedValues, validatorName \in Validators,
          on_value_changed \in {None, "a"},
          state \in {None} \cup State, on_state_change \in StateCallbacks,
          green_to_yellow \in Durations, yellow_to_red \in Durations :
          Constructed(value, state, validatorName,
                      AutomaticStateVariable_init("AutomaticStateVariable", value,
                                                  green_to_yellow, yellow_to_red, state,
                                                  on_state_change, on_value_changed,
                                                  validatorName))

TimedCaller ==
    \/ \E new_value \in TimedValues : SetValue(new_value)
    \/ \E new_state \in State \cup {NotAState} : SetState(new_state)
    \/ \E new_value \in Durations : SetGreenToYellow(new_value)
    \/ \E new_value \in Durations : SetYellowToRed(new_value)

TimedNext == TimedCaller \/ Timers

TimedSpec == TimedInit /\ [][TimedNext]_allvars

\* The caller makes one call on the constructed object and then leaves it alone;
\* the loop runs every due timer.
OneCall == last.op = "construct" /\ TimedCaller

TimedFairSpec == TimedInit /\ [][OneCall \/ Timers]_allvars /\ WF_allvars(Timers)

-----------------------------------------------------------------------------
(* AutomaticStateVariable with several value observers, with the loop's timers *)

RaiseInit ==
    /\ Init
    /\ url_calls = <<>>
    /\ status_calls = <<>>
    /\ StatusObserversInit(None)
    /\ \E validatorName \in Validators, on_value_changed \in Observers,
          state \in {"GREEN", "YELLOW"}, on_state_change \in {"on_state_change"},
          green_to_yellow \in Durations, yellow_to_red \in Durations :
          Constructed(PyInt(1), state, validatorName,
                      AutomaticStateVariable_init("AutomaticStateVariable", PyInt(1),
                                                  green_to_yellow, yellow_to_red, state,
                                                  on_state_change, on_value_changed,
                                                  validatorName))

RaiseCaller ==
    \/ \E new_value \in {PyInt(0), PyInt(1)} : SetValue(new_value)
    \/ \E new_state \in {"GREEN", "YELLOW"} : SetState(new_state)
    \/ \E callback \in Observers : Subscribe(callback)
    \/ \E new_value \in Durations : SetGreenToYellow(new_value)
    \/ \E new_value \in Durations : SetYellowToRed(new_value)

RaiseNext == RaiseCaller \/ Timers

RaiseSpec == RaiseInit /\ [][RaiseNext]_allvars

-----------------------------------------------------------------------------
(* A Variable or StateVariable with a formatter *)

FmtInit ==
    /\ Init
    /\ url_calls = <<>>
    /\ status_calls = <<>>
    /\ StatusObserversInit(None)
    /\ \E value \in Values, on_value_changed \in {None, "a"} :
          \/ Constructed(value, None, None,
                         Variable_init("Variable", value, on_value_changed, None))
          \/ \E on_state_change \in {None, "on_state_change"} :
                Constructed(value, None, None,
                            StateVariable_init("StateVariable", value, None,
                                               on_state_change, on_value_changed, None))

FmtNext ==
    \/ \E f \in Formatters : SetFormatter(f)
    \/ Repr
    \/ \E new_value \in Values : SetValue(new_value)
    \/ \E new_state \in {"GREEN", "RED"} : SetState(new_state)

FmtSpec == FmtInit /\ [][FmtNext]_allvars

-----------------------------------------------------------------------------
(* The connection with a status observer handed to its constructor *)

ChainInit ==
    /\ Init
    /\ url_calls = <<>>
    /\ status_calls = <<>>
    /\ NoVariable
    /\ \E callback \in StatusObservers : StatusObserversInit(callback)

ChainNext == Caller(MaxChainCalls) \/ Loop

ChainSpec == ChainInit /\ [][ChainNext]_allvars

-----------------------------------------------------------------------------
(* A Variable, or the connection, with the observers registered on it *)

\* The two objects share no state: a behaviour exercises one of them.
ObsInit ==
    /\ Init
    /\ url_calls = <<>>
    /\ status_calls = <<>>
    /\ \/ /\ \E callback \in {None} \cup StatusObservers : StatusObserversInit(callback)
          /\ NoVariable
       \/ /\ StatusObserversInit(None)
          /\ \E on_value_changed \in {None} \cup Observers :
                Constructed(PyInt(1), None, None,
                            Variable_init("Variable", PyInt(1), on_value_changed, None))

ObsNext ==
    \/ \E callback \in StatusObservers : obj = NoObject /\ SubscribeStatus(callback)
    \/ obj = NoObject /\ Caller(MaxObsCalls)
    \/ obj = NoObject /\ Loop
    \/ \E callback \in Observers : Subscribe(callback)
    \/ \E new_value \in {PyInt(2), PyStr} : SetValue(new_value)

ObsSpec == ObsInit /\ [][ObsNext]_allvars

-----------------------------------------------------------------------------
(* Claims *)

CallIds == 1..Len(calls)

\* The caller has driven the connection through url, connect(), disconnect()
\* and cancel() only: it has assigned no status itself.
ByOperations == status_calls = <<>>

\* The caller has assigned `status` itself.
CallerAssigned(status) == \E k \in 1..Len(status_calls) : status_calls[k].value = status

Finished(c) == c.pc # "await"

\* The call created a task: connect()/disconnect() was accepted.
Accepted(c) == c.task # "none"

\* C1: under calls of url, connect(), disconnect() and cancel(), the connect handle
\* and the disconnect handle are never both present.
C1_NeverBothInFlight ==
    ByOperations => ~(connect_task # NoTask /\ disconnect_task # NoTask)

\* C2: a cancelled connect() catches the cancellation, sets status DISCONNECTED,
\* clears the connect handle and returns False; a cancelled disconnect() does not
\* raise the cancellation either.
C2_CancellationNeverEscapes ==
    \A i \in CallIds :
        (calls[i].task = "cancelled" /\ Finished(calls[i])) =>
            IF calls[i].op = "connect"
            THEN /\ calls[i].pc = "returned"
                 /\ calls[i].result = "False"
                 /\ calls[i].post.status = "DISCONNECTED"
                 /\ calls[i].post.ct = NoTask
            ELSE calls[i].result # "CancelledError"

\* C3: cancel() called with status CONNECTING, a state the operations have led to,
\* returns with status DISCONNECTED and the connect handle absent.
C3_CancelWhileConnecting ==
    \A i \in CallIds :
        (ByOperations /\ calls[i].op = "cancel" /\ calls[i].pre.status = "CONNECTING") =>
            /\ calls[i].post.status = "DISCONNECTED"
            /\ calls[i].post.ct = NoTask

\* C4: cancel() called with status DISCONNECTING, a state the operations have led
\* to, returns with status CONNECTED and the disconnect handle absent.
C4_CancelWhileDisconnecting ==
    \A i \in CallIds :
        (ByOperations /\ calls[i].op = "cancel" /\ calls[i].pre.status = "DISCONNECTING") =>
            /\ calls[i].post.status = "CONNECTED"
            /\ calls[i].post.dt = NoTask

\* C4 witness: a cancel() was called with status DISCONNECTING while the cancelled
\* disconnect() was suspended, and that disconnect() has since been woken.
C4_Witness ==
    \E i \in CallIds :
        /\ ByOperations
        /\ calls[i].op = "cancel"
        /\ calls[i].pre.status = "DISCONNECTING"
        /\ calls[i].pre.dt # NoTask
        /\ calls[calls[i].pre.dt].task = "cancelled"
        /\ Finished(calls[calls[i].pre.dt])

\* No disconnect() or cancel() has been called so far.
OnlyConnects == \A j \in CallIds : calls[j].op = "connect"

\* connect() i was called while a connect handle was present.
SecondConnect(c) == c.op = "connect" /\ c.pre.ct # NoTask

\* Some connect() was called while connect() i was suspended.
Overlapped(i) ==
    \E j \in CallIds : j > i /\ calls[j].op = "connect" /\ calls[j].pre.ct = i

ResolvedConnected(c) ==
    /\ c.pc = "returned"
    /\ c.result = "True"
    /\ c.post.status = "CONNECTED"
    /\ c.post.ct = NoTask

C5_Rejected ==
    \A j \in CallIds :
        SecondConnect(calls[j]) =>
            /\ calls[j].pc = "raised"
            /\ calls[j].result = "ConnectionError"
            /\ ~Accepted(calls[j])
            /\ calls[j].post.ct = calls[j].pre.ct

C5_FirstUnaffected ==
    \A i \in CallIds :
        (OnlyConnects /\ Accepted(calls[i]) /\ Overlapped(i)) =>
            /\ connect_task = i \/ Finished(calls[i])
            /\ Finished(calls[i]) => ResolvedConnected(calls[i])

C5_FirstResolves ==
    \A i \in 1..MaxLiveCalls :
        (i \in CallIds /\ OnlyConnects /\ Accepted(calls[i]) /\ Overlapped(i))
            ~> \/ ~OnlyConnects
               \/ i \in CallIds /\ ResolvedConnected(calls[i]) /\ connect_task = NoTask

\* C5: a connect() called while a connect is in flight raises ConnectionError, creates
\* no task and leaves the handle as it was; the first connect() then still returns
\* True with status CONNECTED and the handle cleared.
C5_SecondConnectRejected ==
    /\ [](C5_Rejected /\ C5_FirstUnaffected)
    /\ C5_FirstResolves

\* C5 witness: a second connect() was rejected while the first was suspended, and the
\* first has returned True.
C5_Witness ==
    \E i \in CallIds :
        /\ OnlyConnects
        /\ Overlapped(i)
        /\ ResolvedConnected(calls[i])
        /\ connection_status = "CONNECTED"

\* C6: connect() called while url is None raises ConnectionError, creates no connect
\* handle, and status is DISCONNECTED when the error surfaces.
C6_ConnectWithoutURL ==
    \A i \in CallIds :
        (calls[i].op = "connect" /\ calls[i].pre.url = None) =>
            /\ calls[i].pc = "raised"
            /\ calls[i].result = "ConnectionError"
            /\ ~Accepted(calls[i])
            /\ calls[i].post.ct = calls[i].pre.ct
            /\ calls[i].post.status = "DISCONNECTED"

\* C6 witness: connect() was called with no URL, once on the fresh object and once
\* while an earlier connect was in flight.
C6_Witness ==
    /\ \E i \in CallIds :
        calls[i].op = "connect" /\ calls[i].pre.url = None /\ calls[i].pre.ct = NoTask
    /\ \E i \in CallIds :
        calls[i].op = "connect" /\ calls[i].pre.url = None /\ calls[i].pre.ct # NoTask

\* The transitions a status observer is to see, as (value, old_value) pairs.
C7_Expected ==
    << <<"CONNECTING", "DISCONNECTED">>, <<"CONNECTED", "CONNECTING">>,
       <<"DISCONNECTING", "CONNECTED">>, <<"DISCONNECTED", "DISCONNECTING">> >>

IsPrefix(p, q) == Len(p) <= Len(q) /\ SubSeq(q, 1, Len(p)) = p

\* The scenario: the first call is a connect() with a URL set; the only other call,
\* if any, is a disconnect() made after that connect() has returned; the caller
\* assigns no status.
C7_Scenario ==
    /\ ByOperations
    /\ Len(calls) \in {1, 2}
    /\ calls[1].op = "connect"
    /\ calls[1].pre.url # None
    /\ Len(calls) = 2 =>
          /\ calls[2].op = "disconnect"
          /\ calls[2].pre.status = "CONNECTED"

C7_Completed ==
    /\ Len(calls) = 2
    /\ calls[1].pc = "returned" /\ calls[1].result = "True"
    /\ calls[2].pc = "returned" /\ calls[2].result = None
    /\ notified = C7_Expected
    /\ connection_status = "DISCONNECTED"
    /\ connect_task = NoTask
    /\ disconnect_task = NoTask

C7_InOrder ==
    C7_Scenario =>
        /\ IsPrefix(notified, C7_Expected)
        /\ (Len(calls) = 2 /\ Finished(calls[2])) => C7_Completed

C7_Completes ==
    /\ (C7_Scenario /\ Len(calls) = 1)
          ~> \/ Len(calls) > 1
             \/ ~ByOperations
             \/ Len(calls) = 1 /\ ResolvedConnected(calls[1]) /\ connection_status = "CONNECTED"
    /\ (C7_Scenario /\ Len(calls) = 2) ~> (Len(calls) > 2 \/ ~ByOperations \/ C7_Completed)

\* C7: connect() and, after it has returned, disconnect() on a fresh connection with a
\* URL set: the observer sees DISCONNECTED->CONNECTING, CONNECTING->CONNECTED,
\* CONNECTED->DISCONNECTING, DISCONNECTING->DISCONNECTED in that order and nothing
\* else, both calls complete, and no handle remains.
C7_ConnectThenDisconnect ==
    /\ []C7_InOrder
    /\ C7_Completes

\* C7 witness: the scenario has run to its end.
C7_Witness == C7_Scenario /\ C7_Completed

\* C8: whenever connect() or disconnect() raises ConnectionError, status is
\* DISCONNECTED or CONNECTED at that moment (the caller having assigned none).
C8_ErrorLeavesTerminalStatus ==
    \A i \in CallIds :
        (ByOperations /\ calls[i].result = "ConnectionError") =>
            calls[i].post.status \in {"DISCONNECTED", "CONNECTED"}

\* C9: cancel() called while neither handle is present returns with status
\* CANCELLING, whatever the status was, and both handles stay absent.
C9_IdleCancel ==
    \A i \in CallIds :
        (calls[i].op = "cancel" /\ calls[i].pre.ct = NoTask /\ calls[i].pre.dt = NoTask) =>
            /\ calls[i].post.status = "CANCELLING"
            /\ calls[i].post.ct = NoTask
            /\ calls[i].post.dt = NoTask

\* C9 witness: idle cancel() calls were made from status DISCONNECTED, CONNECTED and
\* CANCELLING.
C9_Witness ==
    \A st \in {"DISCONNECTED", "CONNECTED", "CANCELLING"} :
        \E i \in CallIds :
            /\ calls[i].op = "cancel"
            /\ calls[i].pre.ct = NoTask /\ calls[i].pre.dt = NoTask
            /\ calls[i].pre.status = st

\* C10: under calls of url, connect(), disconnect() and cancel(), connect() creates
\* a connect task only when called with status DISCONNECTED and neither handle
\* present.
C10_ConnectAcceptedOnlyWhenIdle ==
    \A i \in CallIds :
        (ByOperations /\ calls[i].op = "connect" /\ Accepted(calls[i])) =>
            /\ calls[i].pre.status = "DISCONNECTED"
            /\ calls[i].pre.ct = NoTask
            /\ calls[i].pre.dt = NoTask

-----------------------------------------------------------------------------
(* Claims on AutomaticStateVariable *)

Timed(o) == o.cls = "AutomaticStateVariable"

\* The latest call was variable.value = ... and it returned.
SetReturned == last.op = "set" /\ Timed(last.pre) /\ last.exc = None

\* C11: whatever the state of an AutomaticStateVariable was before, a
\* set(value) call that passes validation and returns leaves the state GREEN.
C11_SetEndsGreen == SetReturned => last.post.state = "GREEN"

C11_Witness == SetReturned /\ last.pre.state = "BLUE" /\ last.post.state = "GREEN"

\* The latest call, setState(GREEN) or a set, returned with the state GREEN.
SetToGreen ==
    /\ last.op \in {"set", "setState"}
    /\ Timed(last.pre)
    /\ last.exc = None
    /\ last.post.state = "GREEN"

\* The timer-made transitions GREEN -> YELLOW since the latest call.
Decays == {i \in 1..Len(fired) : fired[i].pre.state = "GREEN" /\ fired[i].post.state = "YELLOW"}

\* Such a transition came no earlier than g seconds after the call and, where a
\* state callback is registered, notified it once with (YELLOW, GREEN).
DecayInTime(e, g) ==
    /\ e.at >= g
    /\ obj.on_state_change # None =>
           e.invoked = <<StateCall(obj.on_state_change, "YELLOW", "GREEN")>>

\* C12: with green_to_yellow = g configured (not None), once a call has set the
\* state to GREEN and no further set/setState is made, the state turns YELLOW:
\* exactly one transition, one (YELLOW, GREEN) notification, not before g seconds.
C12_GreenDecaysOnce ==
    /\ [](SetToGreen /\ obj.green_to_yellow # NoDuration =>
             /\ Cardinality(Decays) <= 1
             /\ \A i \in Decays : DecayInTime(fired[i], obj.green_to_yellow))
    /\ (SetToGreen /\ obj.green_to_yellow # NoDuration) ~> (Decays # {})

\* The latest call was a set that returned, made in state GREEN while the
\* green-to-yellow timer was pending.
SetSuperseded ==
    /\ SetReturned
    /\ last.pre.state = "GREEN"
    /\ last.pre.green_to_yellow_handle.st = "pending"
    /\ last.pre.green_to_yellow # NoDuration

\* C13: with green_to_yellow = g configured (not None), a set that returns
\* while the green-to-yellow timer is pending in state
\* GREEN takes that timer off the schedule and arms a fresh one with the full
\* delay g: the state stays GREEN until g seconds after the set, and every
\* timer that runs afterwards is the fresh one (or its successor), never the
\* superseded one.
C13_SetRestartsClock ==
    SetSuperseded =>
        /\ last.post.green_to_yellow_handle = TimerHandle(obj.green_to_yellow)
        /\ last.post.unreferenced = {}
        /\ \A i \in 1..Len(fired) :
              fired[i].referenced /\ fired[i].at >= obj.green_to_yellow
        /\ elapsed < obj.green_to_yellow => obj.state = "GREEN" /\ fired = <<>>

\* At most one timer is scheduled, it is the one just armed for the state the
\* object is in, and its delay is configured.
OneFreshTimer(o) ==
    /\ Cardinality(Scheduled(o)) <= 1
    /\ \A t \in Scheduled(o) : t.referenced
    /\ o.green_to_yellow_handle.st = "pending" =>
          /\ o.state = "GREEN"
          /\ o.green_to_yellow # NoDuration
          /\ o.green_to_yellow_handle.left = o.green_to_yellow
    /\ o.yellow_to_red_handle.st = "pending" =>
          /\ o.state = "YELLOW"
          /\ o.yellow_to_red # NoDuration
          /\ o.yellow_to_red_handle.left = o.yellow_to_red

\* C14: when a setState on an AutomaticStateVariable has completed, called from
\* outside (directly or by set) or by a timer, at most one decay timer is
\* pending: green-to-yellow only in state GREEN with its delay configured,
\* yellow-to-red only in state YELLOW with its delay configured, and no timer
\* scheduled for an earlier state.
C14_AtMostOneTimer ==
    /\ (last.op \in {"set", "setState"} /\ Timed(last.pre) /\ last.exc = None) =>
          OneFreshTimer(last.post)
    /\ \A i \in 1..Len(fired) : fired[i].exc = None => OneFreshTimer(fired[i].post)

\* setState(GREEN) in state YELLOW cancelled the pending yellow-to-red timer,
\* and the green-to-yellow timer, when it ran, armed a new yellow-to-red one.
C14_Witness ==
    /\ last.op = "setState" /\ last.state = "GREEN" /\ last.exc = None
    /\ Timed(last.pre)
    /\ last.pre.yellow_to_red_handle.st = "pending"
    /\ last.post.yellow_to_red_handle.st = "cancelled"
    /\ Len(fired) = 1
    /\ fired[1].exc = None
    /\ fired[1].post.yellow_to_red_handle.st = "pending"

\* The latest call was a set on an AutomaticStateVariable that failed validation.
SetRejected == last.op = "set" /\ Timed(last.pre) /\ last.exc = "ValidationError"

\* C15: a set(value) on an AutomaticStateVariable that fails validation leaves
\* the value, the state and the timers (none cancelled, none armed) as they
\* were and invokes no callback.
C15_RejectedSetChangesNothing ==
    SetRejected => last.post = last.pre /\ last.invoked = <<>>

C15_Witness ==
    /\ SetRejected
    /\ last.pre.state = "GREEN"
    /\ last.pre.green_to_yellow_handle = [st |-> "pending", left |-> 1]
    /\ last.pre.on_state_change # None
    /\ obj = last.pre

\* The states no timer is armed for.
Resting == {"RED", "BLUE", "UNINITIALIZED"}

\* C16: once the state of an AutomaticStateVariable is RED, BLUE or
\* UNINITIALIZED, however it got there, no timer changes it: it changes only by
\* a setState or a successful set from outside.
C16_RestingStateStays ==
    \A i \in 1..Len(fired) :
        fired[i].pre.state \in Resting => fired[i].post.state = fired[i].pre.state

-----------------------------------------------------------------------------
(* Claims on Variable *)

\* The latest call was a set with a candidate of the variable's type, or None,
\* that the validator rejects.
SetOfRejected ==
    /\ last.op = "set"
    /\ ~TypeMismatch(last.pre, last.value)
    /\ Rejected(last.pre, last.value)

\* C17: a set(v) whose candidate v (None or of the variable's type) the
\* validator rejects raises ValidationError, leaves the value as it was and
\* invokes no observer.
C17_RejectedSetRaises ==
    SetOfRejected =>
        /\ last.exc = "ValidationError"
        /\ last.post.value = last.pre.value
        /\ last.invoked = <<>>

C17_Witness ==
    /\ SetOfRejected
    /\ last.pre.value = PyInt(1)
    /\ last.value = PyInt(0)
    /\ last.pre.on_value_changed = {"a", "b"}
    /\ obj.value = PyInt(1)

\* The latest call was a set that passed the type check and the validator.
SetAdmitted ==
    /\ last.op = "set"
    /\ ~TypeMismatch(last.pre, last.value)
    /\ ~Rejected(last.pre, last.value)

\* The invocations of value observers made by the latest call.
ValueCalls == {i \in 1..Len(last.invoked) : last.invoked[i].kind = "value"}

\* C18: a set(new_value) that is admitted stores the new value and then calls
\* the registered observers with (self, new_value, old_value), old_value being
\* the value held before the call and `self` already holding new_value: each
\* observer once when the call returns, and when an observer raises the
\* exception reaches the caller of set.
C18_SetStoresThenNotifies ==
    SetAdmitted =>
        /\ last.post.value = last.value
        /\ \A i \in ValueCalls :
              /\ last.invoked[i].value = last.value
              /\ last.invoked[i].old_value = last.pre.value
              /\ last.invoked[i].callback \in last.pre.on_value_changed
              /\ \A j \in ValueCalls :
                    last.invoked[j].callback = last.invoked[i].callback => i = j
        /\ last.exc = None =>
              {last.invoked[i].callback : i \in ValueCalls} = last.pre.on_value_changed
        /\ (\E callback \in last.pre.on_value_changed : Raises(callback)) =>
              /\ last.exc = "CallbackError"
              /\ Raises(last.invoked[Len(last.invoked)].callback)

C18_Witness ==
    /\ SetAdmitted
    /\ last.exc = None
    /\ last.pre.value = PyInt(1)
    /\ last.value = PyInt(2)
    /\ last.pre.on_value_changed = {"a", "b"}
    /\ Len(last.invoked) = 2
    /\ obj.value = PyInt(2)

-----------------------------------------------------------------------------
(* Claims on the url setter *)

UrlCallIds == 1..Len(url_calls)

\* The raw value is parsed, and no scheme and no host can be extracted from it.
LacksSchemeAndHost(raw) ==
    raw = None \/ (urlparse(raw).exc = None /\ urlparse(raw).scheme = "" /\ urlparse(raw).netloc = "")

\* The raw value is a string that is parsed into a scheme and a host.
HasSchemeAndHost(raw) ==
    raw # None /\ urlparse(raw).exc = None /\ urlparse(raw).scheme # "" /\ urlparse(raw).netloc # ""

\* scheme://host/path of a raw value that has a scheme and a host.
Canonical(raw) ==
    urlparse(raw).scheme \o "://" \o urlparse(raw).netloc \o urlparse(raw).path

CanonicalURLs == {Canonical(raw) : raw \in {r \in UrlInputs : HasSchemeAndHost(r)}}

\* C19: the url setter, given a raw value from which no scheme and
\* host can be extracted, fails with ValidationError and leaves url as it was;
\* url only ever holds None or a canonical value.
C19_InvalidURLRaises ==
    /\ \A j \in UrlCallIds :
          LacksSchemeAndHost(url_calls[j].raw) =>
              /\ url_calls[j].exc = "ValidationError"
              /\ url_calls[j].post = url_calls[j].pre
    /\ url \in {None} \cup CanonicalURLs

\* The connect() calls that found the url as setter call j left it: made after
\* call j and before any later setter call.
FollowingConnects(j) ==
    {i \in CallIds :
        /\ calls[i].op = "connect"
        /\ url_calls[j].at < i
        /\ \A k \in UrlCallIds : k > j => url_calls[k].at >= i}

\* connect() raised ConnectionError for the missing URL (status DISCONNECTED).
RejectedForMissingURL(c) ==
    /\ c.pc = "raised"
    /\ c.result = "ConnectionError"
    /\ c.post.status = UrlMissingStatus
    /\ c.pre.url = None

\* C20: the url setter, given a string without "://" such as
\* "localhost:5000", puts the default scheme in front before parsing and stores
\* the canonical result ("https://localhost:5000"): url is not None afterwards
\* and a following connect() is not rejected for a missing URL.
C20_DefaultSchemePrepended ==
    \A j \in UrlCallIds :
        url_calls[j].raw \in {"localhost:5000", "example.com"} =>
            /\ url_calls[j].post = "https://" \o url_calls[j].raw
            /\ \A i \in FollowingConnects(j) : ~RejectedForMissingURL(calls[i])

-----------------------------------------------------------------------------
(* Claims on disconnect() and cancel() *)

\* The step is a call of `op`: it appends that invocation to `calls`.
IsCall(op) == Len(calls') = Len(calls) + 1 /\ calls'[Len(calls')].op = op

\* C21: disconnect() called while the status is neither CONNECTED nor
\* DISCONNECTING returns at once: the status, the observers' log, both handles
\* and every operation in flight are as they were.
C21_DisconnectNoOp ==
    [][(IsCall("disconnect") /\ connection_status \notin {"CONNECTED", "DISCONNECTING"}) =>
          /\ calls'[Len(calls')].pc = "returned"
          /\ calls'[Len(calls')].task = "none"
          /\ SubSeq(calls', 1, Len(calls)) = calls
          /\ UNCHANGED <<connection_status, notified, connect_task, disconnect_task>>
      ]_allvars

\* disconnect() was called with status CONNECTING while a connect was in
\* flight, returned at once, and that connect has since returned True.
C21_Witness ==
    \E i \in CallIds :
        /\ calls[i].op = "disconnect"
        /\ calls[i].pre.status = "CONNECTING"
        /\ calls[i].pre.ct # NoTask
        /\ calls[i].pc = "returned"
        /\ calls[i].post = calls[i].pre
        /\ calls[calls[i].pre.ct].pc = "returned"
        /\ calls[calls[i].pre.ct].result = "True"

\* C22: the caller assigning no status, a disconnect() called while a
\* disconnect is in flight raises ConnectionError and leaves the disconnect
\* handle as it was; the first disconnect(), unless cancelled, completes with
\* status DISCONNECTED and the handle cleared.
C22_SecondDisconnectRejected ==
    \A i \in CallIds :
        (ByOperations /\ calls[i].op = "disconnect" /\ calls[i].pre.dt # NoTask) =>
            /\ calls[i].pc = "raised"
            /\ calls[i].result = "ConnectionError"
            /\ calls[i].post.dt = calls[i].pre.dt
            /\ LET first == calls[calls[i].pre.dt] IN
               (Finished(first) /\ first.task = "done") =>
                   /\ first.pc = "returned"
                   /\ first.post.status = "DISCONNECTED"
                   /\ first.post.dt = NoTask

\* What the status observers are called with during the step.
NewlyNotified == SubSeq(notified', Len(notified) + 1, Len(notified'))

\* C30: every cancel() call first assigns CANCELLING, and the observers are
\* called with (CANCELLING, status before the call) before anything else; then
\* with DISCONNECTED when a connect was in flight, and with CONNECTED when a
\* disconnect was in flight; the status after the call is the last one the
\* observers were called with.  The call returns in the same step: it never
\* suspends.
C30_CancellingFirst ==
    [][IsCall("cancel") =>
          LET afterConnect ==
                  IF connect_task # NoTask THEN <<<<"DISCONNECTED", "CANCELLING">>>>
                  ELSE <<>>
              middle == IF connect_task # NoTask THEN "DISCONNECTED" ELSE "CANCELLING"
              afterDisconnect ==
                  IF disconnect_task # NoTask THEN <<<<"CONNECTED", middle>>>> ELSE <<>>
          IN
          /\ NewlyNotified =
                <<<<"CANCELLING", connection_status>>>> \o afterConnect \o afterDisconnect
          /\ connection_status' = NewlyNotified[Len(NewlyNotified)][1]
          /\ calls'[Len(calls')].pc = "returned"
          /\ calls'[Len(calls')].post.status = connection_status'
          /\ connect_task' = NoTask /\ disconnect_task' = NoTask
      ]_allvars

\* cancel() was called with a connect in flight and no disconnect: the
\* observers were called with CANCELLING and then with DISCONNECTED.
C30_Witness ==
    \E i \in CallIds, k \in 1..Len(notified) :
        /\ calls[i].op = "cancel"
        /\ calls[i].pre.ct # NoTask
        /\ calls[i].pre.dt = NoTask
        /\ calls[i].pre.status = "CONNECTING"
        /\ calls[i].pc = "returned"
        /\ calls[i].post.status = "DISCONNECTED"
        /\ k < Len(notified)
        /\ notified[k] = <<"CANCELLING", "CONNECTING">>
        /\ notified[k + 1] = <<"DISCONNECTED", "CANCELLING">>

-----------------------------------------------------------------------------
(* Claims on Variable and StateVariable, continued *)

\* The value is stored: the call got past the type check and the validator.
Stored == last.exc \in {None, "CallbackError"} /\ last.post.value = last.value

\* C23: a set whose argument is not None and not of the variable's fixed type
\* raises the type-mismatch error (AssertionError), leaves the value as it was
\* and invokes no observer.  set(None) is stored when the validator admits it
\* and leaves the fixed type alone: afterwards a value of that type is still
\* stored and a value of another type still fails.
C23_TypeIsFixed ==
    last.op = "set" =>
        /\ last.post.type = last.pre.type
        /\ (last.value # PyNone /\ last.value.t # last.pre.type) =>
              /\ last.exc = "AssertionError"
              /\ last.post = last.pre
              /\ last.invoked = <<>>
        /\ (last.value = PyNone \/ last.value.t = last.pre.type) =>
              \/ Stored
              \/ Rejected(last.pre, last.value) /\ last.exc = "ValidationError"

\* None was set on an int variable earlier; now an int value has been stored.
C23_Witness ==
    /\ last.op = "set"
    /\ last.pre.value = PyNone
    /\ last.pre.type = "int"
    /\ last.value = PyInt(1)
    /\ last.exc = None
    /\ obj.value = PyInt(1)

\* C24: a variable constructed with None has no fixed type yet: a later set
\* with a concrete value that the validator admits is stored.
C24_NoneLeavesTypeOpen ==
    (/\ last.op = "set"
     /\ last.pre.type = type(PyNone)
     /\ last.value # PyNone
     /\ ~Rejected(last.pre, last.value)) => Stored

\* C25: a constructor call whose validator rejects the initial value raises
\* ValidationError; no object comes into existence (none holds the rejected
\* value) and no observer is invoked.
C25_RejectedConstruction ==
    /\ (/\ last.op = "construct"
         /\ last.pre.validator # None
         /\ ~validator(last.pre, last.value)) =>
            /\ last.exc = "ValidationError"
            /\ last.post = NoObject
            /\ obj = NoObject
            /\ last.invoked = <<>>
    /\ (last.op = "construct" /\ obj # NoObject) =>
            (obj.validator # None => validator(obj, obj.value))

\* The constructor was handed the value 0 and the validator that wants a
\* positive int.
C25_Witness ==
    /\ last.op = "construct"
    /\ last.value = PyInt(0)
    /\ last.pre.validator = "positive"
    /\ last.exc = "ValidationError"
    /\ obj.cls = "none"

-----------------------------------------------------------------------------
(* Claims on observer registration *)

Registrations == {i \in 1..Len(observed) : observed[i].kind \in {"construct", "subscribe"}}

\* The status observers handed in before the n-th notification.
RegisteredBefore(n) ==
    {observed[i].callback : i \in {r \in Registrations : observed[r].at < n}}

\* The calls `callback` got for the n-th notification.
StatusCallsOf(callback, n) ==
    {i \in 1..Len(observed) :
        /\ observed[i].kind = "call"
        /\ observed[i].callback = callback
        /\ observed[i].at = n}

\* C26: registering an observer adds it to the set of observers, and registering
\* one that is in the set leaves the set as it was; a set that succeeds calls
\* every registered observer exactly once.  Likewise for the status observers
\* of the connection: at every status assignment each observer registered
\* before it, however many times, is called exactly once, with that assignment.
C26_SubscribeIdempotent ==
    /\ last.op = "subscribe" =>
          /\ \E callback \in Observers :
                last.post = [last.pre EXCEPT !.on_value_changed = @ \cup {callback}]
          /\ obj = last.post
    /\ (last.op = "set" /\ last.exc = None) =>
          /\ Len(last.invoked) = Cardinality(last.pre.on_value_changed)
          /\ \A callback \in last.pre.on_value_changed :
                Cardinality({i \in 1..Len(last.invoked) :
                                last.invoked[i].callback = callback}) = 1
    /\ \A i \in Registrations :
          observed[i].post = observed[i].pre \cup {observed[i].callback}
    /\ \A n \in 1..Len(notified), callback \in StatusObservers :
          /\ Cardinality(StatusCallsOf(callback, n)) =
                (IF callback \in RegisteredBefore(n) THEN 1 ELSE 0)
          /\ \A i \in StatusCallsOf(callback, n) :
                <<observed[i].value, observed[i].old_value>> = notified[n]

\* A status observer was registered twice, the second time leaving the set as
\* it was, and then the status was assigned: the observer got one call.
C26_Witness ==
    \E i, j, k \in 1..Len(observed) :
        /\ i < j /\ j < k
        /\ {i, j} \subseteq Registrations
        /\ observed[j].callback = observed[i].callback
        /\ observed[j].post = observed[j].pre
        /\ observed[k].kind = "call"
        /\ observed[k].callback = observed[i].callback
        /\ Cardinality(StatusCallsOf(observed[k].callback, observed[k].at)) = 1

\* The calls of on_state_change among the callbacks the last call invoked.
StateCalls == SelectSeq(last.invoked, LAMBDA c : c.kind = "state")

\* C28: on a StateVariable, setting the value leaves the state as it was and
\* does not call on_state_change; the state changes only in a setState call,
\* which stores the new state and then calls on_state_change, when there is
\* one, once with (self, new state, old state).
C28_StateOnlyBySetState ==
    last.pre.cls = "StateVariable" =>
        /\ last.op # "setState" => (last.post.state = last.pre.state /\ StateCalls = <<>>)
        /\ (last.op = "setState" /\ last.state \in State) =>
              /\ last.post = [last.pre EXCEPT !.state = last.state]
              /\ obj = last.post
              /\ last.invoked =
                    IF last.pre.on_state_change = None THEN <<>>
                    ELSE <<[callback |-> last.pre.on_state_change, kind |-> "state",
                            value |-> PyNone, old_value |-> PyNone,
                            state |-> last.state, old_state |-> last.pre.state]>>

\* A StateVariable in state RED with an on_state_change callback had its value
\* set: the value is stored and the state is still RED.
C28_Witness ==
    /\ last.op = "set"
    /\ last.pre.cls = "StateVariable"
    /\ last.pre.state = "RED"
    /\ last.pre.on_state_change = "on_state_change"
    /\ last.exc = None
    /\ obj.value = PyInt(2)
    /\ last.pre.value = PyInt(1)
    /\ obj.state = "RED"

\* C29: setState on an AutomaticStateVariable cancels the pending timers before
\* the base transition and its callback: when on_state_change raises, the new
\* state is stored and no timer armed for the previous state is left pending.
C29_CancelledBeforeTransition ==
    (/\ last.op = "setState"
     /\ last.pre.cls = "AutomaticStateVariable"
     /\ last.exc = "CallbackError") =>
        /\ last.post.state = last.state
        /\ last.post.green_to_yellow_handle.st # "pending"
        /\ last.post.yellow_to_red_handle.st # "pending"
        /\ last.post.unreferenced = {}

-----------------------------------------------------------------------------
(* Claims on __repr__ *)

\* The marker of src/mtms_cli.py, line 153.
Unformattable == "<Unformattable value>"

\* C27: repr never raises what the formatter raises: whenever the formatter
\* fails on the value held, None or not, repr returns the marker and the value
\* held is as before.
C27_ReprNeverRaises ==
    (/\ last.op = "repr"
     /\ last.pre.formatter # None
     /\ formatter(last.pre, last.pre.value).exc # None) =>
        /\ last.exc = None
        /\ last.ret = Unformattable
        /\ obj = last.pre

-----------------------------------------------------------------------------
(* Claims on the status of the connection *)

\* The statuses the observers have been called with.
StatusesNotified == {notified[k][1] : k \in 1..Len(notified)}

\* C31: no operation sets the status UNDEFINED: unless the caller has assigned
\* UNDEFINED itself, the status is never UNDEFINED, not now, not in any
\* notification, and not when any call was made, returned or raised.
C31_NeverUndefined ==
    ~CallerAssigned("UNDEFINED") =>
    /\ connection_status # "UNDEFINED"
    /\ "UNDEFINED" \notin StatusesNotified
    /\ \A k \in 1..Len(notified) : notified[k][2] # "UNDEFINED"
    /\ \A i \in CallIds :
          calls[i].pre.status # "UNDEFINED" /\ calls[i].post.status # "UNDEFINED"

\* Every other status has been assigned, a connect was rejected for the
\* missing URL and a cancel was made with an operation in flight.
C31_Witness ==
    /\ ByOperations
    /\ StatusesNotified = ConnectionStatus \ {"UNDEFINED"}
    /\ \E i \in CallIds : calls[i].op = "connect" /\ RejectedForMissingURL(calls[i])
    /\ \E i \in CallIds :
          calls[i].op = "cancel" /\ (calls[i].pre.ct # NoTask \/ calls[i].pre.dt # NoTask)

-----------------------------------------------------------------------------
(* Claims on the timers of AutomaticStateVariable *)

\* The latest call was setState(GREEN) on an object with both delays
\* configured, it returned, and no timer has run since.
GreenSet ==
    /\ last.op = "setState"
    /\ fired = <<>>
    /\ Timed(last.pre)
    /\ last.state = "GREEN"
    /\ last.exc = None
    /\ obj.green_to_yellow # NoDuration
    /\ obj.yellow_to_red # NoDuration

\* The green-to-yellow timer has run _set_state(YELLOW): the state callback, if
\* any, was called with (YELLOW, GREEN) and the yellow-to-red timer is armed.
TurnedYellow ==
    /\ obj.state = "YELLOW"
    /\ obj.yellow_to_red_handle.st = "pending"
    /\ \E i \in 1..Len(fired) :
          /\ fired[i].timer = "green_to_yellow"
          /\ fired[i].pre.state = "GREEN"
          /\ fired[i].post.state = "YELLOW"
          /\ obj.on_state_change # None =>
                fired[i].invoked = <<StateCall(obj.on_state_change, "YELLOW", "GREEN")>>

\* C32: with both delays configured and no call after a setState(GREEN), the
\* timers make the same transitions an external setState makes: the state
\* becomes YELLOW, with the state callback called and the yellow-to-red timer
\* armed, and then RED; from then on no timer is pending and the state is RED.
C32_GreenYellowRed ==
    /\ GreenSet ~> TurnedYellow
    /\ GreenSet ~> [](obj.state = "RED" /\ Scheduled(obj) = {})

\* The state after a _set_state that returned: calls made from outside and
\* calls made by a timer.
Transitions ==
    (IF last.op = "setState" /\ Timed(last.pre) /\ last.exc = None
     THEN {last.post} ELSE {})
    \cup {fired[i].post : i \in {j \in 1..Len(fired) : fired[j].exc = None}}

\* C33: a _set_state that ends in GREEN with green_to_yellow configured, 0
\* included, leaves the green-to-yellow timer scheduled; one that ends in YELLOW
\* with yellow_to_red configured, 0 included, leaves the yellow-to-red timer
\* scheduled.
C33_ZeroDelayArms ==
    \A o \in Transitions :
        /\ (o.state = "GREEN" /\ o.green_to_yellow # NoDuration) =>
              o.green_to_yellow_handle = TimerHandle(o.green_to_yellow)
        /\ (o.state = "YELLOW" /\ o.yellow_to_red # NoDuration) =>
              o.yellow_to_red_handle = TimerHandle(o.yellow_to_red)

-----------------------------------------------------------------------------
(* Claims on the coherence of status and handles *)

\* C34: in every state the operations url, connect(), disconnect() and cancel()
\* lead to, whenever the status is DISCONNECTED or CONNECTED, neither the
\* connect handle nor the disconnect handle is present.
C34_TerminalStatusNoHandle ==
    (ByOperations /\ connection_status \in {"DISCONNECTED", "CONNECTED"}) =>
        (connect_task = NoTask /\ disconnect_task = NoTask)

-----------------------------------------------------------------------------
(* Claims on the chain of status notifications *)

\* The status an observer that keeps the value of its latest call holds.
Tracked == IF notified = <<>> THEN "DISCONNECTED" ELSE notified[Len(notified)][1]

\* The notifications of an assignment of `status`.
NotificationsOf(status) == {k \in 1..Len(notified) : notified[k][1] = status}

\* C35: every assignment of the status, one of the value it already has
\* included, calls every registered observer exactly once with (value,
\* old_value); the old_value of each notification is the value of the one
\* before it, DISCONNECTED for the first, so the value of the latest
\* notification is the current status.
C35_NotificationChain ==
    /\ \A k \in 1..Len(notified) :
          notified[k][2] = (IF k = 1 THEN "DISCONNECTED" ELSE notified[k - 1][1])
    /\ Tracked = connection_status
    /\ \A k \in 1..Len(notified), callback \in on_connection_status_changed :
          /\ Cardinality(StatusCallsOf(callback, k)) = 1
          /\ \A i \in StatusCallsOf(callback, k) :
                <<observed[i].value, observed[i].old_value>> = notified[k]
    /\ Cardinality(NotificationsOf("CANCELLING")) =
          Cardinality({i \in CallIds : calls[i].op = "cancel"})
             + Cardinality({k \in 1..Len(status_calls) : status_calls[k].value = "CANCELLING"})

\* cancel() was called with status CANCELLING: the observer was called with
\* (CANCELLING, CANCELLING).
C35_Witness ==
    \E k \in 1..Len(notified), callback \in on_connection_status_changed :
        /\ notified[k] = <<"CANCELLING", "CANCELLING">>
        /\ \E i \in StatusCallsOf(callback, k) :
              observed[i].value = "CANCELLING" /\ observed[i].old_value = "CANCELLING"

-----------------------------------------------------------------------------
(* Claims on connect() after cancel() *)

\* Call j is a connect() with the url set, made right after the cancel() call
\* that cancelled the in-flight connect i; no disconnect() was ever called
\* and the caller has assigned no status.
ConnectAfterCancelOf(i, j) ==
    /\ j > 1
    /\ ByOperations
    /\ \A k \in CallIds : calls[k].op # "disconnect"
    /\ calls[i].op = "connect"
    /\ calls[i].task \in {"cancelling", "cancelled"}
    /\ calls[j - 1].op = "cancel"
    /\ calls[j - 1].pre.ct = i
    /\ calls[j].op = "connect"
    /\ calls[j].pre.url # None

\* The new connect() is accepted; while it is the latest call it keeps its
\* handle and the status CONNECTING, also once the cancelled call has ended,
\* and it returns True with status CONNECTED.
NewConnectUndisturbed ==
    \A i, j \in CallIds :
        ConnectAfterCancelOf(i, j) =>
            /\ calls[j].task # "none"
            /\ calls[j].pre.ct = NoTask
            /\ (j = Len(calls) /\ calls[i].pc # "await" /\ calls[i].post.ct = j) =>
                  (calls[i].post.status = "CONNECTING" /\ calls[i].result = "CancelledError")
            /\ (j = Len(calls) /\ calls[j].pc = "await") =>
                  (connect_task = j /\ connection_status = "CONNECTING")
            /\ (j = Len(calls) /\ calls[j].pc # "await") =>
                  /\ calls[j].pc = "returned"
                  /\ calls[j].result = "True"
                  /\ calls[j].post.status = "CONNECTED"
                  /\ calls[i].pc # "await"

\* The step resumes a connect() whose task was cancelled.
CancelledConnectUnwinds ==
    \E i \in CallIds :
        /\ calls[i].op = "connect"
        /\ calls[i].task = "cancelled"
        /\ calls[i].pc = "await"
        /\ calls'[i].pc # "await"

\* C36: a connect() made after cancel() cancelled an in-flight connect is
\* accepted, whether or not the cancelled connect() has unwound, keeps its
\* handle and the status CONNECTING and returns True with status CONNECTED;
\* the step in which a cancelled connect() unwinds changes neither the status
\* nor a handle and notifies nobody.
C36_ConnectAfterCancel ==
    /\ []NewConnectUndisturbed
    /\ [][CancelledConnectUnwinds =>
             UNCHANGED <<url, connection_status, connect_task, disconnect_task, notified>>]_allvars

\* The cancelled connect unwound while the new one was in flight, and the new
\* one has returned True with status CONNECTED.
C36_Witness ==
    \E i, j \in CallIds :
        /\ ConnectAfterCancelOf(i, j)
        /\ calls[i].pc = "raised"
        /\ calls[i].post.ct = j
        /\ calls[j].pc = "returned"
        /\ calls[j].result = "True"
        /\ connection_status = "CONNECTED"
        /\ connect_task = NoTask

-----------------------------------------------------------------------------
(* Claims on cancel() with both handles present *)

\* The step is a call of cancel().
CancelStep ==
    /\ Len(calls') = Len(calls) + 1
    /\ calls'[Len(calls')].op = "cancel"

\* What the observers are told when both operations are cancelled.
BothCancelled(status) ==
    << <<"CANCELLING", status>>, <<"DISCONNECTED", "CANCELLING">>, <<"CONNECTED", "DISCONNECTED">> >>

\* C37: a cancel() made with both handles present calls cancel() on both tasks
\* (each has its cancellation requested, unless it was done already) and clears
\* both handles; the observers are told CANCELLING, DISCONNECTED,
\* CONNECTED in that order and nothing else, and the status ends CONNECTED.
C37_CancelBoth ==
    [][(CancelStep /\ connect_task # NoTask /\ disconnect_task # NoTask) =>
          /\ calls'[connect_task].task # "pending"
          /\ calls'[disconnect_task].task # "pending"
          /\ connect_task' = NoTask
          /\ disconnect_task' = NoTask
          /\ notified' = notified \o BothCancelled(connection_status)
          /\ connection_status' = "CONNECTED"]_allvars

\* The latest call is a cancel() that found both handles present and both
\* tasks are cancelled.
C37_Witness ==
    /\ calls # <<>>
    /\ LET c == calls[Len(calls)] IN
          /\ c.op = "cancel"
          /\ c.pre.ct # NoTask
          /\ c.pre.dt # NoTask
          /\ calls[c.pre.ct].task = "cancelled"
          /\ calls[c.pre.dt].task = "cancelled"
          /\ c.post.status = "CONNECTED"

-----------------------------------------------------------------------------
(* Claims on the constructor of AutomaticStateVariable *)

\* No set and no setState has been completed since the construction: the latest
\* call is the constructor, or a set that raised or an assignment of a delay on
\* an object with no timer.
NoTransitionYet ==
    /\ Timed(obj)
    /\ \/ last.op = "construct" /\ last.exc = None
       \/ last.op = "set" /\ last.exc # None /\ Scheduled(last.pre) = {}
       \/ last.op \in {"setGreenToYellow", "setYellowToRed"} /\ Scheduled(last.pre) = {}

\* The state the object had when the latest call began.
StateBefore == IF last.op = "construct" THEN last.post.state ELSE last.pre.state

\* C38: the constructor of an AutomaticStateVariable arms no timer whatever
\* the initial state and the delays: the handles are None, the loop has nothing
\* scheduled, no timer ever runs and the state stays the initial one; a set
\* that raises on such an object arms nothing either, nor does an assignment of
\* one of its delays.
C38_ConstructorArmsNoTimer ==
    NoTransitionYet =>
        /\ Scheduled(obj) = {}
        /\ fired = <<>>
        /\ obj.state = StateBefore
        /\ (last.op = "construct" /\ last.state \in State) =>
              /\ obj.state = last.state
              /\ obj.green_to_yellow_handle = NoHandle
              /\ obj.yellow_to_red_handle = NoHandle

\* An object constructed GREEN with both delays positive.
C38_Witness ==
    /\ Timed(obj)
    /\ last.op = "construct"
    /\ last.exc = None
    /\ last.state = "GREEN"
    /\ obj.state = "GREEN"
    /\ Truthy(obj.green_to_yellow)
    /\ Truthy(obj.yellow_to_red)

-----------------------------------------------------------------------------
(* Claims on a raising value observer of AutomaticStateVariable *)

\* The latest call was variable.value = ... on an AutomaticStateVariable; the
\* value was admitted and a value observer raised.
ObserverRaised ==
    /\ last.op = "set"
    /\ Timed(last.pre)
    /\ last.exc = "CallbackError"

\* C39: when a value observer raises during an admitted set on an
\* AutomaticStateVariable, the object afterwards is the object before with the
\* new value stored: state, delays, handles and the loop's timers are as
\* before; only value observers were called, the raising one last and none
\* twice, and the state callback was not called.
C39_ObserverRaises ==
    ObserverRaised =>
        /\ last.post = [last.pre EXCEPT !.value = last.value]
        /\ Scheduled(last.post) = Scheduled(last.pre)
        /\ last.invoked # <<>>
        /\ \A i \in 1..Len(last.invoked) :
              /\ last.invoked[i].kind = "value"
              /\ last.invoked[i].callback \in last.pre.on_value_changed
              /\ Raises(last.invoked[i].callback) <=> i = Len(last.invoked)
              /\ \A j \in 1..Len(last.invoked) :
                    last.invoked[i].callback = last.invoked[j].callback => i = j

\* A set on a YELLOW object with a timer pending and three observers: the
\* raising one was called first, the others were not called, the state is
\* YELLOW and the timer is pending.
C39_Witness ==
    /\ ObserverRaised
    /\ last.pre.state = "YELLOW"
    /\ last.post.state = "YELLOW"
    /\ last.pre.value # last.value
    /\ last.post.value = last.value
    /\ Scheduled(last.pre) # {}
    /\ Scheduled(last.post) # {}
    /\ Cardinality(last.pre.on_value_changed) = 3
    /\ Len(last.invoked) = 1

-----------------------------------------------------------------------------
(* Claims on the status CANCELLING with nothing in flight *)

\* Status CANCELLING and neither handle present.
CancellingIdle ==
    /\ connection_status = "CANCELLING"
    /\ connect_task = NoTask
    /\ disconnect_task = NoTask

\* The step is a call of `op`.
CallStep(op) ==
    /\ Len(calls') = Len(calls) + 1
    /\ calls'[Len(calls')].op = op

\* What the steps do from a state with status CANCELLING and no handle:
\* disconnect() changes nothing, cancel() assigns CANCELLING again, only a
\* connect() changes the status, and a connect() with the url set is accepted.
FromCancelling ==
    /\ CallStep("disconnect") =>
          /\ UNCHANGED <<url, connection_status, connect_task, disconnect_task, notified>>
          /\ calls'[Len(calls')].pc = "returned"
          /\ calls'[Len(calls')].task = "none"
    /\ CallStep("cancel") =>
          /\ UNCHANGED <<url, connection_status, connect_task, disconnect_task>>
          /\ notified' = Append(notified, <<"CANCELLING", "CANCELLING">>)
    /\ (connection_status' # connection_status /\ status_calls' = status_calls) => CallStep("connect")
    /\ (CallStep("connect") /\ url # None) =>
          /\ connection_status' = "CONNECTING"
          /\ connect_task' = Len(calls')
          /\ calls'[Len(calls')].task = "pending"

\* Call j is a connect() with the url set, made with status CANCELLING and no
\* handle present.
ConnectFromCancelling(j) ==
    /\ j \in CallIds
    /\ calls[j].op = "connect"
    /\ calls[j].pre.status = "CANCELLING"
    /\ calls[j].pre.ct = NoTask
    /\ calls[j].pre.dt = NoTask
    /\ calls[j].pre.url # None

\* Such a connect(), unless another call follows it, returns True with status
\* CONNECTED.
ConnectFromCancellingResolves ==
    \A j \in 1..MaxIdleCalls :
        (ConnectFromCancelling(j) /\ j = Len(calls))
            ~> \/ Len(calls) > j
               \/ status_calls # <<>>
               \/ j = Len(calls) /\ ResolvedConnected(calls[j]) /\ connection_status = "CONNECTED"

\* C40: from status CANCELLING with neither handle present,
\* disconnect() is a no-op, cancel() re-asserts CANCELLING, nothing but a
\* connect() (or the caller's own assignment) changes the status, and a
\* connect() with the url set is accepted and, the caller not assigning the
\* status, reaches CONNECTED.
C40_CancellingUntilConnect ==
    /\ [][CancellingIdle => FromCancelling]_allvars
    /\ ConnectFromCancellingResolves

====
